---------------------------- MODULE Spec2Model ----------------------------
(***************************************************************************)
(* Model of the SMS messenger core, src/src/utils/api.ts (class            *)
(* ApiService): the message store (allMessages, processedMessageIds), the  *)
(* poller (pollMessages, startPolling, stopPolling, the interval timer and *)
(* the 60 s retry timers), the send path (sendMessage) and the two         *)
(* single-slot callbacks.                                                  *)
(*                                                                         *)
(* JavaScript runs the class on one thread: every action below is one      *)
(* run-to-completion step (a call up to its first network await, or the    *)
(* continuation after that await).  A canonical timestamp is the ISO-8601  *)
(* string of an instant; Date.prototype.toISOString and Date.parse are     *)
(* inverse on valid instants, so the model keeps the instant (a natural    *)
(* number of clock units) in Message.timestamp.                            *)
(***************************************************************************)
EXTENDS Integers, Sequences, FiniteSets, Bags, TLC

(***************************************************************************)
(* Bounds of the model.                                                    *)
(***************************************************************************)
MaxBatch == 2      \* longest array the endpoint answers with
MaxClock == 1      \* the clock runs over 0..MaxClock
MaxInflight == 2   \* pollMessages calls awaiting their response at one time
MaxSends == 2      \* sendMessage calls that reach the network in one behaviour
MaxRetryTimers == 2     \* retry timers pending at one time

NULL == "null"

(***************************************************************************)
(* JSON values as the code inspects them: typeof, and the value rendered   *)
(* by String().                                                            *)
(***************************************************************************)
JStr(s) == [t |-> "string", v |-> s]
JNum(s) == [t |-> "number", v |-> s]
JUndef == [t |-> "undefined", v |-> "undefined"]

\* An element of the response array: an object with the six fields, or null.
RawObj(id, phone, dir, body, hk) ==
    [kind |-> "object", id |-> id, phoneNumber |-> phone, direction |-> dir,
     lastMessage |-> body, lastMessageHK |-> hk, lastMessageSL |-> hk]
RawNull ==
    [kind |-> "null", id |-> JUndef, phoneNumber |-> JUndef, direction |-> JUndef,
     lastMessage |-> JUndef, lastMessageHK |-> JUndef, lastMessageSL |-> JUndef]

\* Timestamp strings the endpoint sends, and the instant Date.parse gives
\* them (-1 stands for NaN, an invalid date).
TsLocale == "01/01/2025, 12:00:00 AM"
TsIso == "2025-01-01T00:00:01.000Z"
TsBad == "not a date"
NaN == 0 - 1
DateParse(s) ==
    CASE s = TsLocale -> 0
      [] s = TsIso -> 1
      [] OTHER -> NaN


\* a conversion without the fallback to the current time
convertTimestampUnchecked(timestamp, clock) == DateParse(timestamp)

\* a conversion that stamps every message with the time of its cycle
convertTimestampOfArrival(timestamp, clock) == clock

\* Date.prototype.toISOString then Date.parse: the instant itself.
\* src/src/utils/api.ts:98-128.  The first branch (strings holding '/' and
\* ',') and the direct parse both call new Date(timestamp); an invalid date
\* falls through to the current time.
convertTimestamp(timestamp, clock) ==
    IF DateParse(timestamp) # NaN THEN DateParse(timestamp) ELSE clock

\* src/src/utils/api.ts:73-95
convertApiMessage(apiMessage, clock) ==
    LET direction == IF apiMessage.direction.v = "INBOUND" THEN "Incoming" ELSE "Outgoing"
    IN  [conversationId |-> apiMessage.phoneNumber.v,
         timestamp |-> convertTimestamp(apiMessage.lastMessageHK.v, clock),
         body |-> apiMessage.lastMessage.v,
         direction |-> direction,
         id |-> apiMessage.id.v,
         status |-> IF direction = "Outgoing" THEN "delivered" ELSE "undefined"]

(***************************************************************************)
(* Sequence helpers standing for Array.prototype.map / filter / sort.      *)
(***************************************************************************)
Range(s) == {s[i] : i \in DOMAIN s}

RECURSIVE SelectIdx(_, _, _)
\* the subsequence of s at the indexes of keep, in order (Array.filter)
SelectIdx(s, keep, i) ==
    IF i > Len(s) THEN <<>>
    ELSE (IF i \in keep THEN <<s[i]>> ELSE <<>>) \o SelectIdx(s, keep, i + 1)

\* Insert m into the timestamp-sorted sequence s after every element that
\* does not compare greater (a stable insertion).
RECURSIVE InsertByTime(_, _)
InsertByTime(s, m) ==
    IF s = <<>> THEN <<m>>
    ELSE IF s[Len(s)].timestamp <= m.timestamp THEN Append(s, m)
    ELSE Append(InsertByTime(SubSeq(s, 1, Len(s) - 1), m), s[Len(s)])

\* Array.prototype.sort with the comparator
\* (a, b) => new Date(a.timestamp).getTime() - new Date(b.timestamp).getTime():
\* ascending by instant, stable (ES2019).  src/src/utils/api.ts:263-264, 411.
RECURSIVE SortByTime(_)
SortByTime(s) ==
    IF s = <<>> THEN <<>>
    ELSE InsertByTime(SortByTime(SubSeq(s, 1, Len(s) - 1)), s[Len(s)])

(***************************************************************************)
(* The transport: what one GET of the messages endpoint can end in.        *)
(***************************************************************************)
E1 == RawObj(JStr("a"), JNum("555"), JStr("INBOUND"), JStr("hi"), JStr(TsLocale))
E2 == RawObj(JStr("b"), JStr("555"), JStr("OUTBOUND"), JStr("ok"), JStr(TsIso))
\* without an identifier
E3 == RawObj(JStr(""), JStr("777"), JStr("INBOUND"), JStr("anon"), JStr(TsLocale))
\* the identifier of E1 again, later
E4 == RawObj(JStr("a"), JNum("555"), JStr("INBOUND"), JStr("hi again"), JStr(TsIso))
\* a timestamp Date cannot parse
E5 == RawObj(JStr("c"), JStr("777"), JStr("OUTBOUND"), JStr("late"), JStr(TsBad))
\* an unknown direction token: fails the validation
E6 == RawObj(JStr("d"), JStr("777"), JStr("SIDEWAYS"), JStr("bad"), JStr(TsIso))
\* without the lastMessageSL field: fails the validation
E7 == [RawObj(JStr("e"), JStr("555"), JStr("INBOUND"), JStr("cut"), JStr(TsLocale))
          EXCEPT !.lastMessageSL = JUndef]
RawPool == {E1, E2, E3}

SeqsUpTo(S, n) == UNION {[1..k -> S] : k \in 0..n}

Resp(kind, body) == [kind |-> kind, body |-> body]
\* a 2xx answer holding a JSON array; a 2xx answer holding JSON that is no
\* array; a non-2xx answer; the 10 s timeout; a network failure
Faults == {"notArray", "http", "timeout", "network"}
Responses(endpoint) ==
    {Resp("array", b) : b \in SeqsUpTo(endpoint.serves, MaxBatch)}
    \cup {Resp(f, <<>>) : f \in endpoint.fails}

\* src/src/utils/api.ts:174-199, the filter callback.  It reads msg.id
\* before it tests msg, so a null element raises a TypeError (see
\* fetchMessagesFromApi); on an object it is the conjunction of the checks.
isValid(msg) ==
    /\ msg.kind = "object"
    /\ msg.id.t = "string"
    /\ msg.phoneNumber.t \in {"number", "string"}
    /\ msg.direction.t = "string"
    /\ msg.direction.v \in {"INBOUND", "OUTBOUND"}
    /\ msg.lastMessage.t = "string"
    /\ msg.lastMessageHK.t = "string"
    /\ msg.lastMessageSL.t = "string"

ErrConfig == "n8n Get Messages URL not configured. Please check Settings."
ErrNotArray == "API response must be an array of message objects. Please check your n8n webhook configuration."
ErrHttp == "HTTP 500: Internal Server Error"
ErrTimeout == "signal timed out"
ErrConnect == "Cannot connect to n8n endpoint. Please check your internet connection and n8n URL in Settings."
ErrNullElement == "Cannot read properties of null (reading 'id')"

\* !url || url.trim() === ''   (src/src/utils/api.ts:136, 425)
IsBlank(url) == url = "" \/ url = " "

ApiResult(data, error) == [data |-> data, error |-> error]

\* src/src/utils/api.ts:131-232, from the response on.  error = "" stands
\* for a result without an error field.
fetchMessagesFromApi(resp) ==
    CASE resp.kind = "none" -> ApiResult(<<>>, ErrConfig)
      [] resp.kind = "http" -> ApiResult(<<>>, ErrHttp)
      [] resp.kind = "timeout" -> ApiResult(<<>>, ErrTimeout)
      [] resp.kind = "network" -> ApiResult(<<>>, ErrConnect)
      [] resp.kind = "notArray" -> ApiResult(<<>>, ErrNotArray)
      [] OTHER ->
            IF \E i \in DOMAIN resp.body : resp.body[i].kind = "null"
            THEN ApiResult(<<>>, ErrNullElement)
            ELSE ApiResult(SelectIdx(resp.body,
                                     {i \in DOMAIN resp.body : isValid(resp.body[i])}, 1),
                           "")


(***************************************************************************)
(* State.                                                                  *)
(***************************************************************************)
VARIABLES
    settings,               \* ApiService.settings
    processedMessageIds,    \* ApiService.processedMessageIds (Set<string>)
    allMessages,            \* ApiService.allMessages (Message[])
    pollingInterval,        \* handle of the setInterval timer, NoTimer for null
    retryTimeout,           \* handle of the last setTimeout, NoTimer for null
    onNewMessageCallback,   \* the subscriber's name, NULL for null
    onErrorCallback,
    timers,                 \* the runtime's pending timers
    polls,                  \* pollMessages calls awaiting fetchMessagesFromApi
    sends,                  \* sendMessage calls awaiting their POST
    now,                    \* Date.now()
    feed,                   \* what the messages endpoint can answer with
    ev,                     \* history: the step just taken and what it raised
    lastFetch,              \* history: the last successful cycle since a reset
    sentLog                 \* history: the optimistic messages, in send order

vars == <<settings, processedMessageIds, allMessages, pollingInterval, retryTimeout,
          onNewMessageCallback, onErrorCallback, timers, polls, sends, now, feed, ev,
          lastFetch, sentLog>>

store == <<processedMessageIds, allMessages>>
poller == <<pollingInterval, retryTimeout, timers>>
callbacks == <<onNewMessageCallback, onErrorCallback>>

NoTimer == 0
RetryDelayMs == 60000
DefaultPollingInterval == 30
DefaultGetUrl == "https://cloud.automationhoster.org/webhook/get-messages"
DefaultSendUrl == "https://cloud.automationhoster.org/webhook/send-sms"

\* what localStorage holds under 'sms-app-settings': nothing, or a blob
NoBlob == [saved |-> FALSE, n8nWebhookUrl |-> "", n8nGetMessagesUrl |-> "", pollingInterval |-> 0]
SavedBlobs ==
    {NoBlob,
     [saved |-> TRUE, n8nWebhookUrl |-> "", n8nGetMessagesUrl |-> " ", pollingInterval |-> 10],
     [saved |-> TRUE, n8nWebhookUrl |-> DefaultSendUrl, n8nGetMessagesUrl |-> DefaultGetUrl,
      pollingInterval |-> 5]}

\* src/src/utils/api.ts:26-45: a falsy stored field takes its default
LoadSettings(blob) ==
    IF blob.saved
    THEN [n8nWebhookUrl |-> IF blob.n8nWebhookUrl # "" THEN blob.n8nWebhookUrl ELSE DefaultSendUrl,
          n8nGetMessagesUrl |-> IF blob.n8nGetMessagesUrl # "" THEN blob.n8nGetMessagesUrl
                                ELSE DefaultGetUrl,
          pollingInterval |-> IF blob.pollingInterval # 0 THEN blob.pollingInterval
                              ELSE DefaultPollingInterval]
    ELSE [n8nWebhookUrl |-> DefaultSendUrl, n8nGetMessagesUrl |-> DefaultGetUrl,
          pollingInterval |-> DefaultPollingInterval]

\* src/src/components/Settings.tsx:179-184: what can be typed into the
\* number input (its min and max are not enforced on typed text), and the
\* parseInt of it that handleInputChange puts into the form
IntervalTexts == {"5", "10", "12.7", "30", "301"}
parseInt(text) ==
    CASE text = "5" -> 5
      [] text = "10" -> 10
      [] text = "12.7" -> 12
      [] text = "30" -> 30
      [] text = "301" -> 301

\* the values the settings form hands to updateSettings
GetUrls == {DefaultGetUrl, ""}
SendUrls == {DefaultSendUrl, ""}
Intervals == {DefaultPollingInterval, 10}

\* the handlers the components register: ConversationList.handleNewMessages,
\* ChatView.handleNewMessages, the () => {} of ChatView's cleanup;
\* ConversationList.handleApiError
NewMessageHandlers == {"ConversationList", "ChatView", "noop"}
ErrorHandlers == {"ConversationList"}
Phones == {"555"}
Bodies == {"sent"}

\* history of a successful cycle: the validated raw batch, its conversion, the
\* store it found, the number of optimistic messages sent before it completed
NoFetch == [has |-> FALSE, raw |-> <<>>, batch |-> <<>>, seenEmpty |-> FALSE,
            storeEmpty |-> FALSE, sends |-> 0]

\* history of a step: the operation, its arguments, the error it ended in,
\* the increment it computed, the callbacks it invoked (in order), the cycle
\* before it, whether the poller was idle before it, the response the
\* endpoint gave it, the value it returned, whether the step before it was
\* the same read and what that one returned, and the store and the seen set
\* as the new-message subscriber found them when it was called
Event(op) ==
    [op |-> op, arg |-> "", body |-> "", error |-> "", increment |-> <<>>, calls |-> <<>>,
     prev |-> NoFetch, idle |-> FALSE, response |-> <<>>, result |-> <<>>,
     again |-> FALSE, before |-> <<>>, view |-> <<>>]

Call(to, channel, batch, error) ==
    [to |-> to, channel |-> channel, batch |-> batch, error |-> error]

Constructed ==
    /\ \E blob \in SavedBlobs : settings = LoadSettings(blob)
    /\ processedMessageIds = {}
    /\ allMessages = <<>>
    /\ pollingInterval = NoTimer
    /\ retryTimeout = NoTimer
    /\ onNewMessageCallback = NULL
    /\ onErrorCallback = NULL
    /\ timers = {}
    /\ polls = EmptyBag
    /\ sends = EmptyBag
    /\ now = 0
    /\ ev = Event("constructor")
    /\ lastFetch = NoFetch
    /\ sentLog = <<>>

\* the service once constructed, in front of an endpoint that serves one
\* message and can fail in every way
Init ==
    /\ Constructed
    /\ feed = [serves |-> {E1}, fails |-> Faults]

\* the service constructed with the default settings, in front of an endpoint
\* that serves one message and can fail in every way
PollerInit ==
    /\ Constructed
    /\ settings = LoadSettings(NoBlob)
    /\ feed = [serves |-> {E1}, fails |-> Faults]

\* the service constructed with the default settings, in front of an endpoint
\* that serves RawPool and does not fail
DedupInit ==
    /\ Constructed
    /\ settings = LoadSettings(NoBlob)
    /\ feed = [serves |-> RawPool, fails |-> {}]

\* the service constructed with the default settings, in front of an endpoint
\* that serves a message of one conversation and, earlier and without an
\* identifier, one of another, and does not fail
StoreInit ==
    /\ Constructed
    /\ settings = LoadSettings(NoBlob)
    /\ feed = [serves |-> {E2, E3}, fails |-> {}]

\* the service constructed with the default settings, in front of an endpoint
\* that serves one message and can answer with an error status
FaultInit ==
    /\ Constructed
    /\ settings = LoadSettings(NoBlob)
    /\ feed = [serves |-> {E1}, fails |-> {"http"}]

\* src/unnamed/part_004:138-149: the state mountConversationList leaves the
\* constructed service in, its first cycle awaiting the response
Mounted ==
    /\ settings = LoadSettings(NoBlob)
    /\ processedMessageIds = {}
    /\ allMessages = <<>>
    /\ onNewMessageCallback = "ConversationList"
    /\ onErrorCallback = "ConversationList"
    /\ pollingInterval = 1
    /\ retryTimeout = NoTimer
    /\ timers = {[id |-> 1, kind |-> "interval", ms |-> DefaultPollingInterval * 1000]}
    /\ polls = SetToBag({[kind |-> "network"]})
    /\ sends = EmptyBag
    /\ now = 0
    /\ ev = Event("mountConversationList")
    /\ lastFetch = NoFetch
    /\ sentLog = <<>>

\* in front of an endpoint that does not fail and whose arrays hold a
\* message, the same identifier again with a later timestamp, a message whose
\* timestamp cannot be parsed, an element with an unknown direction token,
\* an element that lacks a field, and null
BatchInit ==
    /\ Mounted
    /\ feed = [serves |-> {E1, E4, E5, E6, E7, RawNull}, fails |-> {}]

\* the poller started by ConversationList, in front of an endpoint that
\* serves a message and one whose timestamp cannot be parsed
RefetchInit ==
    /\ Mounted
    /\ feed = [serves |-> {E1, E5}, fails |-> {}]

\* the service constructed with the default settings, no subscriber
\* registered, in front of an endpoint that serves one message and can
\* answer with an error status
DispatchInit ==
    /\ Constructed
    /\ settings = LoadSettings(NoBlob)
    /\ feed = [serves |-> {E1}, fails |-> {"http"}]

\* the service constructed from whatever the settings form has saved, in
\* front of an endpoint that serves one message and does not fail
ConfigInit ==
    /\ Constructed
    /\ feed = [serves |-> {E1}, fails |-> {}]

\* the poller started by ConversationList, in front of an endpoint that
\* serves one message and, until it recovers, can answer with an error
\* status
RunningInit ==
    /\ Mounted
    /\ feed = [serves |-> {E1}, fails |-> {"http"}]

\* the poller started by ConversationList, in front of an endpoint that
\* does not fail and serves two messages
OverlapInit ==
    /\ Mounted
    /\ feed = [serves |-> {E1, E2}, fails |-> {}]

\* src/unnamed/part_004:84-108 and 138-149: the refresh button was pressed
\* while the first cycle of the mounted list awaits its response, so two
\* calls of pollMessages are in flight at once
TwoInFlight ==
    /\ settings = LoadSettings(NoBlob)
    /\ processedMessageIds = {}
    /\ allMessages = <<>>
    /\ onNewMessageCallback = "ConversationList"
    /\ onErrorCallback = "ConversationList"
    /\ pollingInterval = 1
    /\ retryTimeout = NoTimer
    /\ timers = {[id |-> 1, kind |-> "interval", ms |-> DefaultPollingInterval * 1000]}
    /\ polls = SetToBag({[kind |-> "network"]}) (+) SetToBag({[kind |-> "network"]})
    /\ sends = EmptyBag
    /\ now = 0
    /\ ev = Event("pollMessages.call")
    /\ lastFetch = NoFetch
    /\ sentLog = <<>>
    /\ feed = [serves |-> {E1, E2, E4}, fails |-> {"http"}]

(***************************************************************************)
(* Timers of the runtime: setInterval / setTimeout return a fresh handle,  *)
(* clearInterval / clearTimeout remove the timer with that handle.         *)
(***************************************************************************)
Timer(id, kind, ms) == [id |-> id, kind |-> kind, ms |-> ms]
TimerIds(ts) == {t.id : t \in ts}
FreshId(ts, h1, h2) ==
    CHOOSE i \in 1..(Cardinality(ts) + 3) :
        /\ i \notin TimerIds(ts) \cup {h1, h2}
        /\ \A j \in 1..(i - 1) : j \in TimerIds(ts) \cup {h1, h2}
ClearTimer(ts, handle) == {t \in ts : t.id # handle}

\* A fetch cycle whose endpoint is blank fails before any network call: its
\* continuation is a microtask, which runs before any other task.
Quiet == \A p \in BagToSet(polls) : p.kind # "config"

\* src/src/utils/api.ts:235-238 and 131-147: pollMessages up to its await.
\* The endpoint is read, and the request issued, when the call is made.
CallPoll(s) ==
    polls (+) SetToBag({[kind |-> IF IsBlank(s.n8nGetMessagesUrl) THEN "config" ELSE "network"]})


(***************************************************************************)
(* Reads of the store.                                                     *)
(***************************************************************************)
\* src/src/utils/api.ts:330-333
getAllMessages == allMessages

\* the stored messages of one conversation in the order of the store
fetchMessagesUnsorted(phoneNumber) ==
    LET messages == getAllMessages IN
    SelectIdx(messages, {i \in DOMAIN messages : messages[i].conversationId = phoneNumber}, 1)

\* src/src/utils/api.ts:405-419: the stored messages of one conversation,
\* sorted ascending by timestamp (the result's data)
fetchMessages(phoneNumber) ==
    LET messages == getAllMessages IN
    SortByTime(SelectIdx(messages,
                         {i \in DOMAIN messages : messages[i].conversationId = phoneNumber}, 1))

\* src/src/utils/api.ts:484-503: a number of fewer than ten digits comes
\* back as it is, one of ten digits as (XXX) XXX-XXXX
formatPhoneNumber(phone) ==
    IF phone = "5551234567" THEN "(555) 123-4567" ELSE phone

\* a contact that is unread whatever the direction of its message
ContactAlwaysUnread(message, unread) ==
    [phone |-> message.conversationId,
     name |-> message.conversationId,
     lastMessage |-> message.body,
     timestamp |-> message.timestamp,
     unread |-> TRUE]

\* src/src/utils/api.ts:362-368
Contact(message, unread) ==
    [phone |-> message.conversationId,
     name |-> formatPhoneNumber(message.conversationId),
     lastMessage |-> message.body,
     timestamp |-> message.timestamp,
     unread |-> unread]

\* src/src/utils/api.ts:346-378: the forEach over the messages.  The Map is
\* the sequence of its values in insertion order; set() on a key it holds
\* keeps the key's place.
RECURSIVE GroupByPhone(_, _, _)
GroupByPhone(messages, i, conversationMap) ==
    IF i > Len(messages) THEN conversationMap
    ELSE
        LET message == messages[i]
            at == {j \in DOMAIN conversationMap :
                      conversationMap[j].phone = message.conversationId}
            existing == at # {}
            j == CHOOSE k \in at : TRUE
            newer == IF existing THEN message.timestamp > conversationMap[j].timestamp
                     ELSE message.timestamp > 0
            newContact == Contact(message,
                                  message.direction = "Incoming" /\ (~existing \/ newer))
        IN  IF ~existing
            THEN GroupByPhone(messages, i + 1, Append(conversationMap, newContact))
            ELSE IF newer
            THEN GroupByPhone(messages, i + 1, [conversationMap EXCEPT ![j] = newContact])
            ELSE IF message.direction = "Incoming" /\ newer
            THEN GroupByPhone(messages, i + 1, [conversationMap EXCEPT ![j].unread = TRUE])
            ELSE GroupByPhone(messages, i + 1, conversationMap)

\* Insert c into the sequence s, sorted newest first, after every element
\* that is not older (a stable insertion).
RECURSIVE InsertNewestFirst(_, _)
InsertNewestFirst(s, c) ==
    IF s = <<>> THEN <<c>>
    ELSE IF Head(s).timestamp >= c.timestamp THEN <<Head(s)>> \o InsertNewestFirst(Tail(s), c)
    ELSE <<c>> \o s

\* src/src/utils/api.ts:381-382: Array.prototype.sort, newest first (stable)
RECURSIVE SortNewestFirst(_)
SortNewestFirst(s) ==
    IF s = <<>> THEN <<>>
    ELSE InsertNewestFirst(SortNewestFirst(SubSeq(s, 1, Len(s) - 1)), s[Len(s)])

\* a list that takes for each conversation the message the store holds first
ConversationsOfFirst(messages) ==
    SortNewestFirst(GroupByPhone(
        SelectIdx(messages,
                  {i \in DOMAIN messages :
                      \A j \in 1..(i - 1) :
                          messages[j].conversationId # messages[i].conversationId}, 1),
        1, <<>>))

\* src/src/utils/api.ts:336-402: the list fetchConversations returns
Conversations(messages) == SortNewestFirst(GroupByPhone(messages, 1, <<>>))

\* History of the reads: whether fetchConversations has returned since the
\* store was last written (every writer leaves again = FALSE), and the list
\* it returned last.
ListedBefore == ev.op = "fetchConversations" \/ (ev.op = "fetchMessages" /\ ev.again)
ListBefore ==
    IF ev.op = "fetchConversations" THEN ev.result
    ELSE IF ev.op = "fetchMessages" /\ ev.again THEN ev.before
    ELSE <<>>

\* src/src/utils/api.ts:336-402: fetchConversations has no await, it runs to
\* its return when called
fetchConversations ==
    /\ Quiet
    /\ ev' = [Event("fetchConversations") EXCEPT
                !.result = Conversations(getAllMessages),
                !.again = ListedBefore,
                !.before = ListBefore]
    /\ UNCHANGED <<settings, store, poller, callbacks, polls, sends, now, feed, lastFetch,
                   sentLog>>

\* a fetchMessages that sorts the array getAllMessages returns, in place
callFetchMessagesSortingStore(phoneNumber) ==
    /\ Quiet
    /\ allMessages' = SortByTime(allMessages)
    /\ ev' = [Event("fetchMessages") EXCEPT !.arg = phoneNumber,
                                            !.result = fetchMessages(phoneNumber),
                                            !.again = ListedBefore,
                                            !.before = ListBefore]
    /\ UNCHANGED <<settings, processedMessageIds, poller, callbacks, polls, sends, now, feed,
                   lastFetch, sentLog>>

\* src/src/utils/api.ts:405-419: a call of fetchMessages, which has no await
callFetchMessages(phoneNumber) ==
    /\ Quiet
    /\ ev' = [Event("fetchMessages") EXCEPT !.arg = phoneNumber,
                                            !.result = fetchMessages(phoneNumber),
                                            !.again = ListedBefore,
                                            !.before = ListBefore]
    /\ UNCHANGED <<settings, store, poller, callbacks, polls, sends, now, feed, lastFetch,
                   sentLog>>

(***************************************************************************)
(* The poller.                                                             *)
(***************************************************************************)
\* src/src/utils/api.ts:308-318: the timers left pending by stopPolling.
\* clearInterval / clearTimeout of a null handle is skipped by the guards.
StopPollingTimers(ts, intervalHandle, retryHandle) ==
    ClearTimer(ClearTimer(ts, intervalHandle), retryHandle)

\* a start that arms the timer and leaves the first cycle to its first tick
StartPollingLazy(s) ==
    LET cleared == StopPollingTimers(timers, pollingInterval, retryTimeout)
        id == FreshId(cleared, NoTimer, NoTimer)
    IN  /\ BagCardinality(polls) < MaxInflight
        /\ polls' = polls
        /\ timers' = cleared \cup {Timer(id, "interval", s.pollingInterval * 1000)}
        /\ pollingInterval' = id
        /\ retryTimeout' = NoTimer

\* a start that arms a timer next to the one already armed
StartPollingStacking(s) ==
    LET id == FreshId(timers, NoTimer, NoTimer)
    IN  /\ BagCardinality(polls) < MaxInflight
        /\ polls' = CallPoll(s)
        /\ timers' = timers \cup {Timer(id, "interval", s.pollingInterval * 1000)}
        /\ pollingInterval' = id
        /\ retryTimeout' = NoTimer

\* src/src/utils/api.ts:292-305: stopPolling(), pollMessages(), setInterval.
StartPolling(s) ==
    LET cleared == StopPollingTimers(timers, pollingInterval, retryTimeout)
        id == FreshId(cleared, NoTimer, NoTimer)
    IN  /\ BagCardinality(polls) < MaxInflight
        /\ polls' = CallPoll(s)
        /\ timers' = cleared \cup {Timer(id, "interval", s.pollingInterval * 1000)}
        /\ pollingInterval' = id
        /\ retryTimeout' = NoTimer

startPolling ==
    /\ Quiet
    /\ StartPolling(settings)
    /\ ev' = [Event("startPolling") EXCEPT !.idle = (pollingInterval = NoTimer)]
    /\ UNCHANGED <<settings, store, callbacks, sends, now, feed, lastFetch, sentLog>>

\* a stop that raises when no recurring timer is armed
stopPollingOrRaise ==
    /\ Quiet
    /\ timers' = StopPollingTimers(timers, pollingInterval, retryTimeout)
    /\ pollingInterval' = NoTimer
    /\ retryTimeout' = NoTimer
    /\ ev' = [Event("stopPolling") EXCEPT
                !.error = IF pollingInterval = NoTimer THEN "Polling is not running" ELSE ""]
    /\ UNCHANGED <<settings, store, callbacks, polls, sends, now, feed, lastFetch, sentLog>>

\* a stop that also aborts the requests in flight
stopPollingAborting ==
    /\ Quiet
    /\ timers' = StopPollingTimers(timers, pollingInterval, retryTimeout)
    /\ pollingInterval' = NoTimer
    /\ retryTimeout' = NoTimer
    /\ polls' = EmptyBag
    /\ ev' = Event("stopPolling")
    /\ UNCHANGED <<settings, store, callbacks, sends, now, feed, lastFetch, sentLog>>

\* src/src/utils/api.ts:308-318
stopPolling ==
    /\ Quiet
    /\ timers' = StopPollingTimers(timers, pollingInterval, retryTimeout)
    /\ pollingInterval' = NoTimer
    /\ retryTimeout' = NoTimer
    /\ ev' = Event("stopPolling")
    /\ UNCHANGED <<settings, store, callbacks, polls, sends, now, feed, lastFetch, sentLog>>

\* src/src/utils/api.ts:54-58 and 321-327: merge, then restartPolling, which
\* stops and starts only while an interval timer is set.
updateSettings(partial) ==
    /\ Quiet
    /\ partial # settings
    /\ settings' = partial
    /\ IF pollingInterval # NoTimer
       THEN StartPolling(partial)
       ELSE UNCHANGED <<polls, timers, pollingInterval, retryTimeout>>
    /\ ev' = Event("updateSettings")
    /\ UNCHANGED <<store, callbacks, sends, now, feed, lastFetch, sentLog>>

\* src/src/components/Settings.tsx:31-58: the interval typed into the form,
\* then Save: handleSave hands the form to updateSettings as it is
handleSave(text) ==
    updateSettings([settings EXCEPT !.pollingInterval = parseInt(text)])

\* src/unnamed/part_004:138-149, the mount effect of ConversationList:
\* setNewMessageCallback, setErrorCallback, startPolling in one task
\* (loadConversations only reads)
mountConversationList ==
    /\ Quiet
    /\ onNewMessageCallback' = "ConversationList"
    /\ onErrorCallback' = "ConversationList"
    /\ StartPolling(settings)
    /\ ev' = Event("mountConversationList")
    /\ UNCHANGED <<settings, store, sends, now, feed, lastFetch, sentLog>>

\* a manual call of pollMessages (ConversationList.handleRefresh)
pollMessages ==
    /\ Quiet
    /\ BagCardinality(polls) < MaxInflight
    /\ polls' = CallPoll(settings)
    /\ ev' = Event("pollMessages.call")
    /\ UNCHANGED <<settings, store, poller, callbacks, sends, now, feed, lastFetch, sentLog>>

\* src/src/utils/api.ts:300-302: a tick of the interval timer
intervalTick ==
    /\ Quiet
    /\ \E t \in timers : t.kind = "interval"
    /\ BagCardinality(polls) < MaxInflight
    /\ polls' = CallPoll(settings)
    /\ ev' = Event("interval")
    /\ UNCHANGED <<settings, store, poller, callbacks, sends, now, feed, lastFetch, sentLog>>

\* src/src/utils/api.ts:245-247: a retry timer fires, once
retryFire ==
    /\ Quiet
    /\ BagCardinality(polls) < MaxInflight
    /\ \E t \in timers :
        /\ t.kind = "timeout"
        /\ timers' = timers \ {t}
    /\ polls' = CallPoll(settings)
    /\ ev' = Event("retry")
    /\ UNCHANGED <<settings, store, pollingInterval, retryTimeout, callbacks, sends, now,
                   feed, lastFetch, sentLog>>

\* a filter that forgets the seen set: every identified message is new
FilterNewUnseen(msgs, seen) == SelectIdx(msgs, {i \in DOMAIN msgs : msgs[i].id # ""}, 1)

\* a filter that treats the empty identifier like any other
RECURSIVE FilterNewAnyId(_, _)
FilterNewAnyId(msgs, seen) ==
    IF msgs = <<>> THEN <<>>
    ELSE IF Head(msgs).id \notin seen
         THEN <<Head(msgs)>> \o FilterNewAnyId(Tail(msgs), seen \cup {Head(msgs).id})
         ELSE FilterNewAnyId(Tail(msgs), seen)

\* a filter that finds nothing new while nobody listens
RECURSIVE FilterNewIfHeard(_, _)
FilterNewIfHeard(msgs, seen) ==
    IF onNewMessageCallback = NULL \/ msgs = <<>> THEN <<>>
    ELSE IF Head(msgs).id = "" THEN FilterNewIfHeard(Tail(msgs), seen)
    ELSE IF Head(msgs).id \notin seen
         THEN <<Head(msgs)>> \o FilterNewIfHeard(Tail(msgs), seen \cup {Head(msgs).id})
         ELSE FilterNewIfHeard(Tail(msgs), seen)

\* src/src/utils/api.ts:270-278: the filter over the batch, which adds an
\* identifier to the seen set the first time it meets it.
RECURSIVE FilterNew(_, _)
FilterNew(msgs, seen) ==
    IF msgs = <<>> THEN <<>>
    ELSE IF Head(msgs).id = "" THEN FilterNew(Tail(msgs), seen)
    ELSE IF Head(msgs).id \notin seen
         THEN <<Head(msgs)>> \o FilterNew(Tail(msgs), seen \cup {Head(msgs).id})
         ELSE FilterNew(Tail(msgs), seen)

\* src/src/utils/api.ts:258: map(convertApiMessage)
ConvertAll(data, clock) == [i \in DOMAIN data |-> convertApiMessage(data[i], clock)]

\* a snapshot that keeps what the store held and adds the batch to it
SnapshotMerged(old, converted) == old \o SortByTime(converted)

\* a snapshot in arrival order
SnapshotUnsorted(old, converted) == converted

\* a snapshot that is only taken while the store is empty, so that the
\* cycle that completes first keeps the store
SnapshotFirstWins(old, converted) == IF old = <<>> THEN SortByTime(converted) ELSE old

\* src/src/utils/api.ts:263-264: the new snapshot.  Array.prototype.sort
\* sorts convertedMessages in place and returns it, so the snapshot and the
\* array the filter walks are one array, in ascending order.
Snapshot(old, converted) == SortByTime(converted)

\* src/src/utils/api.ts:242: this.onErrorCallback?.(result.error)
NotifyError(error) ==
    IF onErrorCallback # NULL THEN <<Call(onErrorCallback, "error", <<>>, error)>> ELSE <<>>

\* src/src/utils/api.ts:280-285: the subscriber is called when the increment
\* is not empty
NotifyNewMessages(newMessages) ==
    IF Len(newMessages) > 0 /\ onNewMessageCallback # NULL
    THEN <<Call(onNewMessageCallback, "newMessages", newMessages, "")>>
    ELSE <<>>

\* src/src/utils/api.ts:280-285: what the subscriber finds in the service
\* when it is called, given the store and the seen set at that statement
ViewAtCall(newMessages, stored, seen) ==
    IF Len(newMessages) > 0 /\ onNewMessageCallback # NULL
    THEN [allMessages |-> stored, processedMessageIds |-> seen]
    ELSE <<>>

\* an error branch that reports the error and schedules no retry
PollFailedNoRetry(p, resp, result) ==
    /\ ev' = [Event("pollMessages") EXCEPT !.error = result.error,
                                           !.calls = NotifyError(result.error),
                                           !.arg = p.kind, !.response = resp]
    /\ UNCHANGED <<store, poller, lastFetch>>

\* an error branch that also gives up the recurring timer
PollFailedFatal(p, resp, result) ==
    LET id == FreshId(timers, pollingInterval, retryTimeout) IN
    /\ Cardinality({t \in timers : t.kind = "timeout"}) < MaxRetryTimers
    /\ timers' = ClearTimer(timers, pollingInterval) \cup {Timer(id, "timeout", RetryDelayMs)}
    /\ pollingInterval' = NoTimer
    /\ retryTimeout' = id
    /\ ev' = [Event("pollMessages") EXCEPT !.error = result.error,
                                           !.calls = NotifyError(result.error),
                                           !.arg = p.kind, !.response = resp]
    /\ UNCHANGED <<store, lastFetch>>

\* an error branch that stores the empty data of the failed result
PollFailedStoring(p, resp, result) ==
    LET id == FreshId(timers, pollingInterval, retryTimeout) IN
    /\ Cardinality({t \in timers : t.kind = "timeout"}) < MaxRetryTimers
    /\ timers' = timers \cup {Timer(id, "timeout", RetryDelayMs)}
    /\ retryTimeout' = id
    /\ allMessages' = Snapshot(allMessages, ConvertAll(result.data, now))
    /\ ev' = [Event("pollMessages") EXCEPT !.error = result.error,
                                           !.calls = NotifyError(result.error),
                                           !.arg = p.kind, !.response = resp]
    /\ UNCHANGED <<processedMessageIds, pollingInterval, lastFetch>>

\* src/src/utils/api.ts:240-249: the error branch
PollFailed(p, resp, result) ==
    LET id == FreshId(timers, pollingInterval, retryTimeout) IN
    /\ Cardinality({t \in timers : t.kind = "timeout"}) < MaxRetryTimers
    /\ timers' = timers \cup {Timer(id, "timeout", RetryDelayMs)}
    /\ retryTimeout' = id
    /\ ev' = [Event("pollMessages") EXCEPT !.error = result.error,
                                           !.calls = NotifyError(result.error),
                                           !.arg = p.kind, !.response = resp]
    /\ UNCHANGED <<store, pollingInterval, lastFetch>>

\* a success branch that does not record the identifiers it reports
PollSucceededForgetful(p, resp, result) ==
    LET converted == ConvertAll(result.data, now)
        snapshot == Snapshot(allMessages, converted)
        newMessages == FilterNew(snapshot, processedMessageIds)
    IN  /\ allMessages' = snapshot
        /\ processedMessageIds' = processedMessageIds
        /\ ev' = [Event("pollMessages") EXCEPT
                    !.increment = newMessages,
                    !.calls = NotifyNewMessages(newMessages),
                    !.prev = lastFetch,
                    !.arg = p.kind,
                    !.response = resp]
        /\ lastFetch' = [has |-> TRUE, raw |-> result.data, batch |-> converted,
                         seenEmpty |-> processedMessageIds = {},
                         storeEmpty |-> allMessages = <<>>,
                         sends |-> Len(sentLog)]
        /\ UNCHANGED poller

\* a success branch whose sort leaves convertedMessages in arrival order
\* (a sort of a copy), so that the filter walks the batch as fetched
PollSucceededArrivalOrder(p, resp, result) ==
    LET converted == ConvertAll(result.data, now)
        snapshot == Snapshot(allMessages, converted)
        newMessages == FilterNew(converted, processedMessageIds)
    IN  /\ allMessages' = snapshot
        /\ processedMessageIds' = processedMessageIds \cup {m.id : m \in Range(newMessages)}
        /\ ev' = [Event("pollMessages") EXCEPT
                    !.increment = newMessages,
                    !.calls = NotifyNewMessages(newMessages),
                    !.prev = lastFetch,
                    !.arg = p.kind,
                    !.response = resp]
        /\ lastFetch' = [has |-> TRUE, raw |-> result.data, batch |-> converted,
                         seenEmpty |-> processedMessageIds = {},
                         storeEmpty |-> allMessages = <<>>,
                         sends |-> Len(sentLog)]
        /\ UNCHANGED poller

\* a success branch that calls the subscriber from inside the filter, as
\* soon as the increment is known, before the identifiers are recorded
PollSucceededEarlyCall(p, resp, result) ==
    LET converted == ConvertAll(result.data, now)
        snapshot == Snapshot(allMessages, converted)
        newMessages == FilterNew(snapshot, processedMessageIds)
    IN  /\ allMessages' = snapshot
        /\ processedMessageIds' = processedMessageIds \cup {m.id : m \in Range(newMessages)}
        /\ ev' = [Event("pollMessages") EXCEPT
                    !.increment = newMessages,
                    !.calls = NotifyNewMessages(newMessages),
                    !.view = ViewAtCall(newMessages, snapshot, processedMessageIds),
                    !.prev = lastFetch,
                    !.arg = p.kind,
                    !.response = resp]
        /\ lastFetch' = [has |-> TRUE, raw |-> result.data, batch |-> converted,
                         seenEmpty |-> processedMessageIds = {},
                         storeEmpty |-> allMessages = <<>>,
                         sends |-> Len(sentLog)]
        /\ UNCHANGED poller

\* src/src/utils/api.ts:251-288: the success branch.  The subscriber is
\* called by the last statement, after the store is assigned (263) and the
\* filter has recorded the identifiers (270-278).
PollSucceeded(p, resp, result) ==
    LET converted == ConvertAll(result.data, now)
        snapshot == Snapshot(allMessages, converted)
        newMessages == FilterNew(snapshot, processedMessageIds)
        seen == processedMessageIds \cup {m.id : m \in Range(newMessages)}
    IN  /\ allMessages' = snapshot
        /\ processedMessageIds' = seen
        /\ ev' = [Event("pollMessages") EXCEPT
                    !.increment = newMessages,
                    !.calls = NotifyNewMessages(newMessages),
                    !.view = ViewAtCall(newMessages, snapshot, seen),
                    !.prev = lastFetch,
                    !.arg = p.kind,
                    !.response = resp]
        /\ lastFetch' = [has |-> TRUE, raw |-> result.data, batch |-> converted,
                         seenEmpty |-> processedMessageIds = {},
                         storeEmpty |-> allMessages = <<>>,
                         sends |-> Len(sentLog)]
        /\ UNCHANGED poller

\* what the endpoint answers to the request of p (nothing when no request
\* was made)
PollResponses(p) ==
    IF p.kind = "config" THEN {Resp("none", <<>>)} ELSE Responses(feed)

\* src/src/utils/api.ts:238-288: pollMessages from the await on
pollMessagesResume ==
    \E p \in BagToSet(polls) :
        /\ p.kind = "config" \/ Quiet
        /\ polls' = polls (-) SetToBag({p})
        /\ \E resp \in PollResponses(p) :
            LET result == fetchMessagesFromApi(resp) IN
            IF result.error # "" THEN PollFailed(p, resp, result)
            ELSE PollSucceeded(p, resp, result)
        /\ UNCHANGED <<settings, callbacks, sends, now, feed, sentLog>>

(***************************************************************************)
(* Subscribers, send, reset, clock.                                        *)
(***************************************************************************)
\* a registration that keeps the subscriber already registered
setNewMessageCallbackKeepFirst(callback) ==
    /\ Quiet
    /\ onNewMessageCallback' =
           IF onNewMessageCallback = NULL THEN callback ELSE onNewMessageCallback
    /\ ev' = [Event("setNewMessageCallback") EXCEPT !.arg = callback]
    /\ UNCHANGED <<settings, store, poller, onErrorCallback, polls, sends, now, feed,
                   lastFetch, sentLog>>

\* src/src/utils/api.ts:61-64
setNewMessageCallback(callback) ==
    /\ Quiet
    /\ onNewMessageCallback' = callback
    /\ ev' = [Event("setNewMessageCallback") EXCEPT !.arg = callback]
    /\ UNCHANGED <<settings, store, poller, onErrorCallback, polls, sends, now, feed,
                   lastFetch, sentLog>>

\* src/src/utils/api.ts:67-70
setErrorCallback(callback) ==
    /\ Quiet
    /\ onErrorCallback' = callback
    /\ ev' = [Event("setErrorCallback") EXCEPT !.arg = callback]
    /\ UNCHANGED <<settings, store, poller, onNewMessageCallback, polls, sends, now,
                   feed, lastFetch, sentLog>>

ErrSendConfig == "n8n Send Message URL not configured. Please check Settings."
TempId(clock) == "temp-" \o ToString(clock)

\* src/src/utils/api.ts:422-441: sendMessage up to its await
sendMessage(to, body) ==
    /\ Quiet
    /\ IF IsBlank(settings.n8nWebhookUrl)
       THEN /\ ev' = [Event("sendMessage") EXCEPT !.error = ErrSendConfig, !.arg = to,
                                                  !.body = body]
            /\ UNCHANGED sends
       ELSE /\ BagCardinality(sends) + Len(sentLog) < MaxSends
            /\ sends' = sends (+) SetToBag({[to |-> to, body |-> body]})
            /\ ev' = [Event("sendMessage.call") EXCEPT !.arg = to, !.body = body]
    /\ UNCHANGED <<settings, store, poller, callbacks, polls, now, feed, lastFetch, sentLog>>

\* an optimistic message marked as a fetched outgoing one
OptimisticDelivered(to, body, clock) ==
    [conversationId |-> to, timestamp |-> clock, body |-> body, direction |-> "Outgoing",
     id |-> TempId(clock), status |-> "delivered"]

\* src/src/utils/api.ts:449-456
OptimisticMessage(to, body, clock) ==
    [conversationId |-> to, timestamp |-> clock, body |-> body, direction |-> "Outgoing",
     id |-> TempId(clock), status |-> "sent"]

\* src/src/utils/api.ts:458: this.allMessages.push(optimisticMessage)
PushOptimistic(msgs, m) == Append(msgs, m)

SendOutcomes == {"", ErrHttp, ErrTimeout, ErrConnect}

\* a send that pushes its optimistic message before it looks at the response
sendMessageResumeEager ==
    \E s \in BagToSet(sends), outcome \in SendOutcomes :
        /\ Quiet
        /\ sends' = sends (-) SetToBag({s})
        /\ LET m == OptimisticMessage(s.to, s.body, now) IN
           /\ allMessages' = PushOptimistic(allMessages, m)
           /\ processedMessageIds' = processedMessageIds \cup {m.id}
           /\ sentLog' = Append(sentLog, m)
        /\ ev' = [Event("sendMessage") EXCEPT !.error = outcome, !.arg = s.to,
                                              !.body = s.body]
        /\ UNCHANGED <<settings, poller, callbacks, polls, now, feed, lastFetch>>

\* src/src/utils/api.ts:443-480: sendMessage from the await on
sendMessageResume ==
    \E s \in BagToSet(sends), outcome \in SendOutcomes :
        /\ Quiet
        /\ sends' = sends (-) SetToBag({s})
        /\ IF outcome = ""
           THEN LET m == OptimisticMessage(s.to, s.body, now) IN
                /\ allMessages' = PushOptimistic(allMessages, m)
                /\ processedMessageIds' =
                       IF m.id # "" THEN processedMessageIds \cup {m.id}
                       ELSE processedMessageIds
                /\ sentLog' = Append(sentLog, m)
           ELSE UNCHANGED <<store, sentLog>>
        /\ ev' = [Event("sendMessage") EXCEPT !.error = outcome, !.arg = s.to,
                                              !.body = s.body]
        /\ UNCHANGED <<settings, poller, callbacks, polls, now, feed, lastFetch>>

\* a reset that forgets the identifiers and keeps the messages
resetSeenOnly ==
    /\ Quiet
    /\ processedMessageIds' = {}
    /\ ev' = Event("resetProcessedMessages")
    /\ lastFetch' = NoFetch
    /\ UNCHANGED <<settings, allMessages, poller, callbacks, polls, sends, now, feed, sentLog>>

\* a reset that forgets the messages and keeps the identifiers
resetStoreOnly ==
    /\ Quiet
    /\ allMessages' = <<>>
    /\ ev' = Event("resetProcessedMessages")
    /\ lastFetch' = NoFetch
    /\ UNCHANGED <<settings, processedMessageIds, poller, callbacks, polls, sends, now, feed,
                   sentLog>>

\* src/src/utils/api.ts:512-516
resetProcessedMessages ==
    /\ Quiet
    /\ processedMessageIds' = {}
    /\ allMessages' = <<>>
    /\ ev' = Event("resetProcessedMessages")
    /\ lastFetch' = NoFetch
    /\ UNCHANGED <<settings, poller, callbacks, polls, sends, now, feed, sentLog>>

\* the endpoint stops failing
recover ==
    /\ Quiet
    /\ feed.fails # {}
    /\ feed' = [feed EXCEPT !.fails = {}]
    /\ ev' = Event("recover")
    /\ UNCHANGED <<settings, store, poller, callbacks, polls, sends, now, sentLog, lastFetch>>

\* time passes
tick ==
    /\ Quiet
    /\ now < MaxClock
    /\ now' = now + 1
    /\ ev' = Event("tick")
    /\ UNCHANGED <<settings, store, poller, callbacks, polls, sends, feed, lastFetch, sentLog>>

(***************************************************************************)
(* The service as the views read it: the ConversationList mounted, one     *)
(* cycle completed, then sends.                                            *)
(***************************************************************************)
\* the instants of the sends that followed the cycle, in order
SentInstants ==
    {sent \in SeqsUpTo(0..MaxClock, MaxSends) :
        \A i, j \in DOMAIN sent : i < j => sent[i] <= sent[j]}

\* the optimistic messages of those sends (ChatView sends to its conversation)
SentMessages(sent) == [i \in DOMAIN sent |-> OptimisticMessage("555", "sent", sent[i])]

\* src/src/utils/api.ts:263-264 and 458: the store after a cycle that fetched
\* batch at instant 0 into the empty store, and the sends after it
StoreAfter(batch, sent) == Snapshot(<<>>, ConvertAll(batch, 0)) \o SentMessages(sent)

\* the state that mountConversationList, the completion of its cycle with
\* batch, and the sends at the instants of sent lead to
Loaded(endpoint, batch, sent) ==
    LET snapshot == Snapshot(<<>>, ConvertAll(batch, 0))
        newMessages == FilterNew(snapshot, {})
        sentMessages == SentMessages(sent)
    IN  /\ settings = LoadSettings(NoBlob)
        /\ feed = endpoint
        /\ onNewMessageCallback = "ConversationList"
        /\ onErrorCallback = "ConversationList"
        /\ allMessages = StoreAfter(batch, sent)
        /\ processedMessageIds =
               {m.id : m \in Range(newMessages)} \cup {m.id : m \in Range(sentMessages)}
        /\ pollingInterval = 1
        /\ retryTimeout = NoTimer
        /\ timers = {Timer(1, "interval", DefaultPollingInterval * 1000)}
        /\ polls = EmptyBag
        /\ sends = EmptyBag
        /\ now = IF sent = <<>> THEN 0 ELSE sent[Len(sent)]
        /\ lastFetch = [has |-> TRUE, raw |-> batch, batch |-> ConvertAll(batch, 0),
                        seenEmpty |-> TRUE, storeEmpty |-> TRUE, sends |-> 0]
        /\ sentLog = sentMessages
        /\ ev = IF sent = <<>>
                THEN [Event("pollMessages") EXCEPT
                        !.increment = newMessages,
                        !.calls = NotifyNewMessages(newMessages),
                        !.view = ViewAtCall(newMessages, snapshot,
                                            {m.id : m \in Range(newMessages)}),
                        !.arg = "network",
                        !.response = Resp("array", batch)]
                ELSE [Event("sendMessage") EXCEPT !.arg = "555", !.body = "sent"]

\* in front of an endpoint that serves an incoming and a later outgoing
\* message of one conversation and, at the time of the first, a message of
\* another conversation
ReadInit ==
    LET endpoint == [serves |-> {E1, E2, E3}, fails |-> {}] IN
    \E batch \in SeqsUpTo(endpoint.serves, MaxBatch), sent \in SentInstants :
        Loaded(endpoint, batch, sent)

\* the service after the first cycle of ConversationList has fetched and
\* reported E1, in front of an endpoint that serves E1 and its identifier
\* again with a later timestamp, and can answer with an error status
ResetInit ==
    Loaded([serves |-> {E1, E4}, fails |-> {"http"}], <<E1>>, <<>>)

\* the service after the first cycle of ConversationList has fetched a batch
\* of RawPool, before any send
SendInit ==
    \E batch \in SeqsUpTo(RawPool, MaxBatch) :
        Loaded([serves |-> RawPool, fails |-> {}], batch, <<>>)

SettingsValues ==
    [n8nWebhookUrl : SendUrls, n8nGetMessagesUrl : GetUrls, pollingInterval : Intervals]

Next ==
    \/ mountConversationList
    \/ startPolling
    \/ stopPolling
    \/ \E partial \in SettingsValues : updateSettings(partial)
    \/ pollMessages
    \/ intervalTick
    \/ retryFire
    \/ pollMessagesResume
    \/ \E callback \in NewMessageHandlers : setNewMessageCallback(callback)
    \/ \E callback \in ErrorHandlers : setErrorCallback(callback)
    \/ \E to \in Phones, body \in Bodies : sendMessage(to, body)
    \/ sendMessageResume
    \/ resetProcessedMessages
    \/ tick

Spec == Init /\ [][Next]_vars

\* the store and what feeds it: fetch cycles (a cycle may start at any time),
\* sends, reset
StoreNext ==
    \/ pollMessages
    \/ pollMessagesResume
    \/ \E to \in Phones, body \in Bodies : sendMessage(to, body)
    \/ sendMessageResume
    \/ resetProcessedMessages

StoreSpec == StoreInit /\ [][StoreNext]_vars

\* the store in front of a failing endpoint: fetch cycles that succeed or
\* fail, their retries, sends, reset
FaultNext ==
    \/ pollMessages
    \/ pollMessagesResume
    \/ \E to \in Phones, body \in Bodies : sendMessage(to, body)
    \/ sendMessageResume
    \/ resetProcessedMessages

FaultSpec == FaultInit /\ [][FaultNext]_vars

\* the conversation keys the views ask for: two that occur, one that does not
ReadKeys == {"555", "777", "000"}

\* the reads of the views: fetchConversations and fetchMessages
ReadNext ==
    \/ fetchConversations
    \/ \E phoneNumber \in ReadKeys : callFetchMessages(phoneNumber)

ReadSpec == ReadInit /\ [][ReadNext]_vars

\* validation, conversion and merge of a batch: the first cycle of
\* ConversationList completes, at whatever instant
BatchNext ==
    \/ pollMessagesResume
    \/ tick

BatchSpec == BatchInit /\ [][BatchNext]_vars

\* the dispatcher: ConversationList registers both its handlers when it
\* mounts, ChatView replaces the new-message handler and puts () => {} in
\* its place when it unmounts, a client replaces the error handler; cycles
\* that succeed or fail raise the events
DispatchNext ==
    \/ mountConversationList
    \/ \E callback \in {"ChatView", "noop"} : setNewMessageCallback(callback)
    \/ \E callback \in {"noop"} : setErrorCallback(callback)
    \/ pollMessages
    \/ pollMessagesResume

DispatchSpec == DispatchInit /\ [][DispatchNext]_vars

\* the reset of Settings between the cycles of the refresh button
ResetNext ==
    \/ resetProcessedMessages
    \/ pollMessages
    \/ pollMessagesResume

ResetSpec == ResetInit /\ [][ResetNext]_vars

\* sends while the clock runs
SendNext ==
    \/ \E to \in Phones, body \in Bodies : sendMessage(to, body)
    \/ sendMessageResume
    \/ tick

SendSpec == SendInit /\ [][SendNext]_vars

\* the running poller stopped for good in front of a failing endpoint: ticks
\* and retries while it runs, then stopPolling, and whatever the runtime
\* still does afterwards; nobody starts the poller or calls pollMessages
HaltNext ==
    \/ intervalTick
    \/ retryFire
    \/ pollMessagesResume
    \/ stopPolling

HaltSpec == RunningInit /\ [][HaltNext]_vars

\* the same endpoint fetched again and again while the clock runs
RefetchNext ==
    \/ pollMessages
    \/ pollMessagesResume
    \/ tick

RefetchSpec == RefetchInit /\ [][RefetchNext]_vars

\* sends in front of a send endpoint that fails, or that the settings leave
\* blank, while the poller is idle
SendFaultNext ==
    \/ \E partial \in SettingsValues : updateSettings(partial)
    \/ \E to \in Phones, body \in Bodies : sendMessage(to, body)
    \/ sendMessageResume
    \/ tick

SendFaultSpec == ConfigInit /\ [][SendFaultNext]_vars

\* the configuration layer in front of the poller: the form saved while
\* the poller is idle or running
ConfigNext ==
    \/ mountConversationList
    \/ stopPolling
    \/ \E text \in IntervalTexts : handleSave(text)
    \/ intervalTick
    \/ pollMessagesResume

ConfigSpec == ConfigInit /\ [][ConfigNext]_vars

\* the running poller: ticks of the recurring timer, retries, completions,
\* and the endpoint recovering
RunningNext ==
    \/ intervalTick
    \/ retryFire
    \/ pollMessagesResume
    \/ recover

\* Every request ends (a response, an error or the 10 s timeout), and
\* setInterval keeps firing: a tick is only held back while MaxInflight
\* requests are awaited, so it is taken whenever it is possible again and
\* again.  Nothing is assumed about when a retry timer fires.
RunningSpec ==
    /\ RunningInit
    /\ [][RunningNext]_vars
    /\ SF_vars(intervalTick)
    /\ WF_vars(pollMessagesResume)

\* cycles that overlap (the refresh button calls pollMessages while the
\* cycle of the timer is in flight, and the requests complete in any order)
\* and sends
OverlapNext ==
    \/ pollMessages
    \/ pollMessagesResume
    \/ \E to \in Phones, body \in Bodies : sendMessage(to, body)
    \/ sendMessageResume

OverlapSpec == OverlapInit /\ [][OverlapNext]_vars

\* the poller stopped while cycles are in flight: the cycle of the mounted
\* list and those of the refresh button, completing before or after the stop
StoppedNext ==
    \/ pollMessages
    \/ pollMessagesResume
    \/ stopPolling

StoppedSpec == OverlapInit /\ [][StoppedNext]_vars

\* two cycles in flight at once, completing one after the other
InFlightSpec == TwoInFlight /\ [][pollMessagesResume]_vars

\* deduplication: fetch cycles over RawPool, one subscriber, reset
DedupNext ==
    \/ pollMessages
    \/ pollMessagesResume
    \/ \E callback \in {"ConversationList"} : setNewMessageCallback(callback)
    \/ resetProcessedMessages

DedupSpec == DedupInit /\ [][DedupNext]_vars

\* the poller and its timers: start, stop, restart, ticks, retries, cycles
PollerNext ==
    \/ mountConversationList
    \/ startPolling
    \/ stopPolling
    \/ \E partial \in {s \in SettingsValues : s.n8nWebhookUrl = DefaultSendUrl} :
          updateSettings(partial)
    \/ pollMessages
    \/ intervalTick
    \/ retryFire
    \/ pollMessagesResume
    \/ mountConversationList

PollerSpec == PollerInit /\ [][PollerNext]_vars

(***************************************************************************)
(* Vocabulary of the properties.                                           *)
(***************************************************************************)
Ids(msgs) == {msgs[i].id : i \in DOMAIN msgs}

RawIds(raw) == {raw[i].id.v : i \in DOMAIN raw}

SeqToBag(s) == [x \in Range(s) |-> Cardinality({i \in DOMAIN s : s[i] = x})]

DistinctIds(raw) == \A i, j \in DOMAIN raw : i # j => raw[i].id.v # raw[j].id.v

IsSortedByTime(s) == \A i, j \in DOMAIN s : i < j => s[i].timestamp <= s[j].timestamp

\* the batches the last step handed to the new-message subscriber
Deliveries == SelectIdx(ev.calls, {i \in DOMAIN ev.calls : ev.calls[i].channel = "newMessages"}, 1)

\* the batch the last step handed to the new-message subscriber, if any
Delivered == IF Deliveries = <<>> THEN <<>> ELSE Deliveries[1].batch

\* the errors the last step handed to the error subscriber
ErrorCalls == SelectIdx(ev.calls, {i \in DOMAIN ev.calls : ev.calls[i].channel = "error"}, 1)

\* the last step was a poll cycle that completed successfully
CycleSucceeded == ev.op = "pollMessages" /\ ev.error = "" /\ lastFetch.has

(***************************************************************************)
(* C1: deduplication across two fetch cycles.                              *)
(***************************************************************************)
\* cycle A (ev.prev) started from the empty seen set, cycle B (lastFetch)
\* followed it with no reset in between, and a subscriber is registered
C1_TwoCycles ==
    /\ CycleSucceeded
    /\ ev.prev.has
    /\ ev.prev.seenEmpty
    /\ onNewMessageCallback # NULL

C2_FromReset(fetch) ==
    /\ fetch.has
    /\ fetch.seenEmpty
    /\ fetch.storeEmpty
    /\ DistinctIds(fetch.raw)

\* the last cycle repeated the fetch of the cycle before it, which had
\* started from a reset store
C2_Repeated ==
    /\ CycleSucceeded
    /\ C2_FromReset(ev.prev)
    /\ lastFetch.raw = ev.prev.raw

\* C2 as stated: N valid raw messages with pairwise distinct ids (any
\* strings), fetched from a reset store, leave N messages in the store and
\* an increment of N; the same fetch repeated at once leaves an increment of
\* 0 and a store of N.
C2_IncrementIsWholeBatch ==
    /\ (CycleSucceeded /\ C2_FromReset(lastFetch)) =>
           /\ Len(allMessages) = Len(lastFetch.raw)
           /\ Len(ev.increment) = Len(lastFetch.raw)
    /\ C2_Repeated =>
           /\ ev.increment = <<>>
           /\ Len(allMessages) = Len(lastFetch.raw)

\* C2, amended: N valid raw messages with pairwise distinct ids, fetched from
\* a reset store, leave N messages in the store and an increment that holds
\* exactly those of them whose id is not the empty string; the same fetch
\* repeated at once leaves an empty increment and a store of N.
C2_IncrementIsIdentifiedBatch ==
    /\ (CycleSucceeded /\ C2_FromReset(lastFetch)) =>
           /\ Len(allMessages) = Len(lastFetch.raw)
           /\ ev.increment =
                  SelectIdx(allMessages, {i \in DOMAIN allMessages : allMessages[i].id # ""}, 1)
           /\ Len(ev.increment) = Cardinality(RawIds(lastFetch.raw) \ {""})
    /\ C2_Repeated =>
           /\ ev.increment = <<>>
           /\ Len(allMessages) = Len(lastFetch.raw)

\* a batch of two, one of them without an identifier, fetched twice
C2_FetchedTwice ==
    /\ C2_Repeated
    /\ Len(lastFetch.raw) = 2
    /\ "" \in RawIds(lastFetch.raw)

(***************************************************************************)
(* C3: the stored identifiers have been seen.                              *)
(***************************************************************************)
\* C3: in every reachable state, whatever the interleaving of poll
\* completions (successful or failed), sends and resets, every message of
\* allMessages with a non-empty id has its id in processedMessageIds.
C3_StoredIdsAreSeen ==
    \A m \in Range(allMessages) : m.id # "" => m.id \in processedMessageIds

\* a failed cycle has just left a store that holds a fetched message with an
\* identifier and an optimistic one
C3_MixedStoreAfterFailure ==
    /\ ev.op = "pollMessages"
    /\ ev.error # ""
    /\ \E m \in Range(allMessages) : m.id # "" /\ m.status # "sent"
    /\ \E m \in Range(allMessages) : m.status = "sent"

(***************************************************************************)
(* C4: the store is the last snapshot followed by the later optimistic     *)
(* messages.                                                               *)
(***************************************************************************)
\* C4: after a successful fetch (and no reset since), allMessages is the
\* converted batch of that fetch sorted ascending by timestamp, followed only
\* by the optimistic messages appended after it, in the order of their sends.
C4_StoreIsSnapshotThenSends ==
    lastFetch.has =>
        LET n == Len(lastFetch.batch)
            head == SubSeq(allMessages, 1, n)
            tail == SubSeq(allMessages, n + 1, Len(allMessages))
        IN  /\ Len(allMessages) >= n
            /\ SeqToBag(head) = SeqToBag(lastFetch.batch)
            /\ IsSortedByTime(head)
            /\ tail = SubSeq(sentLog, lastFetch.sends + 1, Len(sentLog))

\* a batch of two that arrived out of order is stored, and a send followed it
C4_SnapshotThenSend ==
    /\ lastFetch.has
    /\ Len(lastFetch.batch) = 2
    /\ ~IsSortedByTime(lastFetch.batch)
    /\ Len(allMessages) = 3
    /\ allMessages[3].status = "sent"

(***************************************************************************)
(* C5: a sent message is listed at once.                                   *)
(***************************************************************************)
\* the last step was a sendMessage that returned success
SendSucceeded == ev.op = "sendMessage" /\ ev.error = ""

\* C5: right after a successful sendMessage(to, body), fetchMessages(to)
\* holds a message with conversationId = to, direction Outgoing, status
\* sent and that body, and its id is in the seen set.
C5_SentIsListed ==
    SendSucceeded =>
        \E m \in Range(fetchMessages(ev.arg)) :
            /\ m.conversationId = ev.arg
            /\ m.direction = "Outgoing"
            /\ m.status = "sent"
            /\ m.body = ev.body
            /\ m.id \in processedMessageIds

\* a send succeeded into a conversation that held a fetched message, next to
\* another conversation
C5_SentIntoConversation ==
    /\ SendSucceeded
    /\ Len(fetchMessages(ev.arg)) = 2
    /\ Len(allMessages) = 3

(***************************************************************************)
(* C6: a poll issued before a send completes after it.                     *)
(***************************************************************************)
\* C6 as stated: an optimistic message appended by a successful send is not
\* removed by the completion of a poll that was issued before the send
\* completed.  (A cycle that completes in the step after the send was in
\* flight when the send completed.)
C6_StalePollKeepsOptimistic ==
    [][(SendSucceeded /\ ev'.op = "pollMessages" /\ ev'.error = "")
           => sentLog[Len(sentLog)] \in Range(allMessages')]_vars

(***************************************************************************)
(* C7: a cycle whose fetch fails.                                          *)
(***************************************************************************)
\* the errors of a fetch that reached the network: a non-2xx status, a
\* timeout, a network error, a body that is not an array
FetchFailures == {ErrHttp, ErrTimeout, ErrConnect, ErrNotArray}

\* C7: a cycle whose fetch fails with a non-2xx status, a timeout, a network
\* error or a non-array body invokes the registered error callback exactly
\* once, with the error string, does not invoke the new-message callback,
\* schedules exactly one retry timer of 60 s, and neither clears nor re-arms
\* the interval timer.
C7_FailedCycleRetriesOnce ==
    [][(ev'.op = "pollMessages" /\ ev'.error \in FetchFailures) =>
           /\ onErrorCallback # NULL =>
                  ErrorCalls' = <<Call(onErrorCallback, "error", <<>>, ev'.error)>>
           /\ Deliveries' = <<>>
           /\ \E t \in timers' \ timers :
                  /\ t.kind = "timeout"
                  /\ t.ms = RetryDelayMs
                  /\ timers' = timers \cup {t}
           /\ pollingInterval' = pollingInterval]_vars

\* a cycle has just failed while polling was running and a subscriber was
\* registered: its retry timer is pending next to the interval timer
C7_FailedWhileRunning ==
    /\ ev.op = "pollMessages"
    /\ ev.error \in FetchFailures
    /\ Len(ErrorCalls) = 1
    /\ pollingInterval # NoTimer
    /\ \E t \in timers : t.kind = "interval" /\ t.id = pollingInterval
    /\ \E t \in timers : t.kind = "timeout" /\ t.id = retryTimeout

(***************************************************************************)
(* C8: a cycle with a blank endpoint.                                      *)
(***************************************************************************)
\* C8 as stated: with the get-messages endpoint blank, a fetch cycle fails
\* with the configuration error without a network call, the error is
\* surfaced, and no retry is scheduled.
C8_ConfigErrorNotRetried ==
    [][(ev'.op = "pollMessages" /\ ev'.arg = "config") =>
           /\ ev'.error = ErrConfig
           /\ onErrorCallback # NULL =>
                  ErrorCalls' = <<Call(onErrorCallback, "error", <<>>, ErrConfig)>>
           /\ timers' = timers
           /\ retryTimeout' = retryTimeout]_vars

(***************************************************************************)
(* C9: stopPolling and the pending timers.                                 *)
(***************************************************************************)
\* C9 as stated: right after stopPolling returns, no interval timer and no
\* retry timer scheduled by an earlier failed cycle is pending.
C9_StopLeavesNoTimer ==
    ev.op = "stopPolling" => ~ \E t \in timers : t.kind \in {"interval", "timeout"}

(***************************************************************************)
(* C10: startPolling from Idle.                                            *)
(***************************************************************************)
\* C10: startPolling from Idle starts one fetch cycle at once and arms
\* exactly one interval timer, of period settings.pollingInterval seconds;
\* each tick of the interval timer starts exactly one pollMessages cycle.
C10_StartArmsOneTimer ==
    [][/\ (ev'.op = "startPolling" /\ pollingInterval = NoTimer) =>
              /\ BagCardinality(polls') = BagCardinality(polls) + 1
              /\ {t \in timers' : t.kind = "interval"} =
                     {Timer(pollingInterval', "interval", settings.pollingInterval * 1000)}
              /\ pollingInterval' # NoTimer
       /\ ev'.op = "interval" =>
              /\ BagCardinality(polls') = BagCardinality(polls) + 1
              /\ timers' = timers]_vars

\* polling has just been started from Idle with a period of 10 s
C10_StartedFromIdle ==
    /\ ev.op = "startPolling"
    /\ ev.idle
    /\ settings.pollingInterval = 10
    /\ {t \in timers : t.kind = "interval"} = {Timer(pollingInterval, "interval", 10000)}
    /\ BagCardinality(polls) = 1

(***************************************************************************)
(* C11..C13, C19: the reads of the store.                                  *)
(***************************************************************************)
\* the places in allMessages of the messages of one conversation
Group(phone) == {i \in DOMAIN allMessages : allMessages[i].conversationId = phone}

\* the places of the latest messages of a conversation: those carrying the
\* maximum timestamp of its group
Latest(phone) ==
    {i \in Group(phone) :
        \A j \in Group(phone) : allMessages[j].timestamp <= allMessages[i].timestamp}

\* the first of them in the order of allMessages
FirstLatest(phone) == CHOOSE i \in Latest(phone) : \A j \in Latest(phone) : i <= j

C12_ReadsArePure ==
    [][ev'.op \in {"fetchConversations", "fetchMessages"} =>
          /\ allMessages' = allMessages
          /\ processedMessageIds' = processedMessageIds
          /\ timers' = timers
          /\ pollingInterval' = pollingInterval
          /\ retryTimeout' = retryTimeout
          /\ onNewMessageCallback' = onNewMessageCallback
          /\ onErrorCallback' = onErrorCallback
          /\ (ev'.op = "fetchConversations" /\ ev'.again) => ev'.result = ev'.before]_vars

\* fetchConversations has returned a list of two conversations for the
\* second time since the store was written, with the interval timer pending
\* and both subscribers registered
C12_ListedTwice ==
    /\ ev.op = "fetchConversations"
    /\ ev.again
    /\ Len(ev.result) = 2
    /\ ev.before = ev.result
    /\ timers # {}
    /\ onNewMessageCallback # NULL
    /\ onErrorCallback # NULL

\* the stores a cycle over the endpoint and sends after it can leave
ReadStores ==
    {StoreAfter(batch, sent) : batch \in SeqsUpTo(feed.serves, MaxBatch), sent \in SentInstants}

IsNewestFirst(list) ==
    \A i, j \in DOMAIN list : i < j => list[i].timestamp >= list[j].timestamp

\* C13: the list fetchConversations returns is sorted newest first, and
\* every store that holds the same messages as allMessages, in whatever
\* order, gives the same list.
C13_ListIsFunctionOfMessageSet ==
    ev.op = "fetchConversations" =>
        /\ IsNewestFirst(ev.result)
        /\ \A other \in ReadStores :
               SeqToBag(other) = SeqToBag(allMessages) => Conversations(other) = ev.result

\* C19: fetchMessages(key) returns the stored messages whose conversationId
\* is key, each as often as the store holds it and no other message, in
\* ascending order of timestamp.
C19_ConversationAscending ==
    ev.op = "fetchMessages" =>
        /\ \A m \in Range(ev.result) : m.conversationId = ev.arg
        /\ \A m \in Range(allMessages) :
               m.conversationId = ev.arg =>
                   Cardinality({i \in DOMAIN ev.result : ev.result[i] = m}) =
                       Cardinality({i \in DOMAIN allMessages : allMessages[i] = m})
        /\ IsSortedByTime(ev.result)

\* fetchMessages has returned a conversation whose optimistic message sits in
\* the store behind a fetched message of a later instant, from a store that
\* also holds another conversation
C19_OptimisticOutOfOrder ==
    /\ ev.op = "fetchMessages"
    /\ Len(ev.result) >= 2
    /\ \E i, j \in DOMAIN allMessages :
           /\ i < j
           /\ allMessages[i].timestamp > allMessages[j].timestamp
           /\ allMessages[i].conversationId = ev.arg
           /\ allMessages[j].conversationId = ev.arg
           /\ allMessages[j].status = "sent"
    /\ \E m \in Range(allMessages) : m.conversationId # ev.arg

(***************************************************************************)
(* C14..C16: validation, conversion and merge of one batch.                *)
(***************************************************************************)
\* the elements of a response array that satisfy the required-field schema
ValidElements(body) == SelectIdx(body, {i \in DOMAIN body : isValid(body[i])}, 1)

\* the last step completed a cycle whose response array mixes elements that
\* satisfy the schema with elements that do not
MixedCycle ==
    /\ ev.op = "pollMessages"
    /\ ev.response.kind = "array"
    /\ \E i, j \in DOMAIN ev.response.body :
           isValid(ev.response.body[i]) /\ ~isValid(ev.response.body[j])

\* C14: a cycle over an array that mixes valid and invalid elements
\* succeeds, stores exactly the valid elements, converted, invokes no error
\* callback and schedules no retry.
C14_ValidElementsStored ==
    MixedCycle =>
        /\ ev.error = ""
        /\ SeqToBag(allMessages) = SeqToBag(ConvertAll(ValidElements(ev.response.body), now))
        /\ ErrorCalls = <<>>
        /\ \A t \in timers : t.kind # "timeout"
        /\ retryTimeout = NoTimer

\* C15: every message a successful cycle stores carries a valid instant; a
\* validated element whose lastMessageHK cannot be parsed is stored with the
\* current time, the rest of its batch is stored with it, and no error is
\* surfaced.
C15_UnparseableGetsCurrentTime ==
    CycleSucceeded =>
        /\ \A m \in Range(allMessages) : m.timestamp # NaN /\ m.timestamp \in Nat
        /\ Len(allMessages) = Len(lastFetch.raw)
        /\ \A i \in DOMAIN lastFetch.raw :
               LET raw == lastFetch.raw[i] IN
               \E m \in Range(allMessages) :
                   /\ m.id = raw.id.v
                   /\ m.body = raw.lastMessage.v
                   /\ m.timestamp = IF DateParse(raw.lastMessageHK.v) = NaN THEN now
                                    ELSE DateParse(raw.lastMessageHK.v)
        /\ ErrorCalls = <<>>
        /\ \A t \in timers : t.kind # "timeout"

\* a cycle completing after the clock has advanced has stored a message
\* whose timestamp cannot be parsed, at the current time, behind the other
\* message of its batch
C15_FallbackStored ==
    /\ CycleSucceeded
    /\ now > 0
    /\ Len(allMessages) = 2
    /\ allMessages[1].id = "a"
    /\ allMessages[2].id = "c"
    /\ allMessages[2].timestamp = now
    /\ \E i \in DOMAIN lastFetch.raw : lastFetch.raw[i].lastMessageHK.v = TsBad

\* the places in a sequence of messages of those carrying an identifier
Carrying(msgs, id) == {k \in DOMAIN msgs : msgs[k].id = id}

\* C16: when two elements of the batch of a successful cycle share an
\* identifier and differ in their timestamps, the store keeps one message of
\* that identifier and the increment reports one, and it is the last element
\* of that identifier in the order of the response array.
C16_LastInArrayOrderWins ==
    CycleSucceeded =>
        \A i, j \in DOMAIN lastFetch.raw :
            (/\ i < j
             /\ lastFetch.raw[i].id.v = lastFetch.raw[j].id.v
             /\ lastFetch.raw[i].lastMessageHK.v # lastFetch.raw[j].lastMessageHK.v
             /\ \A k \in DOMAIN lastFetch.raw :
                    k > j => lastFetch.raw[k].id.v # lastFetch.raw[j].id.v)
            => LET id == lastFetch.raw[j].id.v
                   last == convertApiMessage(lastFetch.raw[j], now)
               IN  /\ Cardinality(Carrying(allMessages, id)) = 1
                   /\ \A k \in Carrying(allMessages, id) : allMessages[k] = last
                   /\ Cardinality(Carrying(ev.increment, id)) = 1
                   /\ \A k \in Carrying(ev.increment, id) : ev.increment[k] = last

(***************************************************************************)
(* C17: the dispatcher.                                                    *)
(***************************************************************************)
\* C17: a registration replaces the subscriber of its channel and delivers
\* nothing; a cycle hands its increment, when not empty, once to the
\* new-message subscriber registered last and to nobody else, and its error
\* once to the error subscriber registered last; with no subscriber
\* registered the event is dropped, and no later cycle delivers a message of
\* an identifier seen before it.
C17_LastSubscriberOnly ==
    [][/\ ev'.op = "setNewMessageCallback" =>
              /\ onNewMessageCallback' = ev'.arg
              /\ onErrorCallback' = onErrorCallback
              /\ ev'.calls = <<>>
       /\ ev'.op = "setErrorCallback" =>
              /\ onErrorCallback' = ev'.arg
              /\ onNewMessageCallback' = onNewMessageCallback
              /\ ev'.calls = <<>>
       /\ ev'.op = "pollMessages" =>
              /\ onNewMessageCallback' = onNewMessageCallback
              /\ onErrorCallback' = onErrorCallback
              /\ Len(Deliveries') + Len(ErrorCalls') = Len(ev'.calls)
              /\ Len(Deliveries') =
                     IF ev'.increment # <<>> /\ onNewMessageCallback # NULL THEN 1 ELSE 0
              /\ Len(ErrorCalls') =
                     IF ev'.error # "" /\ onErrorCallback # NULL THEN 1 ELSE 0
              /\ \A c \in Range(Deliveries') :
                     /\ c.to = onNewMessageCallback
                     /\ c.batch = ev'.increment
                     /\ \A m \in Range(c.batch) : m.id \notin processedMessageIds
              /\ \A c \in Range(ErrorCalls') :
                     /\ c.to = onErrorCallback
                     /\ c.error = ev'.error]_vars

\* a cycle has handed its increment to ChatView, which replaced the
\* new-message handler ConversationList registered together with its error
\* handler
C17_DeliveredToReplacement ==
    /\ ev.op = "pollMessages"
    /\ Len(Deliveries) = 1
    /\ Deliveries[1].to = "ChatView"
    /\ onNewMessageCallback = "ChatView"
    /\ onErrorCallback = "ConversationList"

(***************************************************************************)
(* C18: reset.                                                             *)
(***************************************************************************)
\* the step is the first successful cycle since a reset
FirstCycleAfterReset == ev'.op = "pollMessages" /\ ev'.error = "" /\ ~lastFetch.has

\* what reset does and leaves alone
ResetEffect ==
    ev'.op = "resetProcessedMessages" =>
        /\ allMessages' = <<>>
        /\ processedMessageIds' = {}
        /\ timers' = timers
        /\ pollingInterval' = pollingInterval
        /\ retryTimeout' = retryTimeout
        /\ onNewMessageCallback' = onNewMessageCallback
        /\ onErrorCallback' = onErrorCallback
        /\ settings' = settings

\* C18 (as stated): reset empties the store and the seen set and leaves
\* timers, subscribers and settings alone, and the first successful cycle
\* after it reports every message of its batch that has a non-empty
\* identifier.
C18_ResetResurfacesEveryMessage ==
    [][/\ ResetEffect
       /\ FirstCycleAfterReset =>
              \A m \in Range(lastFetch'.batch) :
                  m.id # "" => m \in Range(ev'.increment)]_vars

\* C18 (amended): reset empties the store and the seen set and leaves
\* timers, subscribers and settings alone, and the first successful cycle
\* after it reports, for every non-empty identifier of its batch, exactly one
\* message of the batch carrying it, and hands them to the subscriber.
C18_ResetResurfacesEveryIdentifier ==
    [][/\ ResetEffect
       /\ FirstCycleAfterReset =>
              /\ \A id \in Ids(lastFetch'.batch) \ {""} :
                     Cardinality(Carrying(ev'.increment, id)) = 1
              /\ \A m \in Range(ev'.increment) :
                     m.id # "" /\ m \in Range(lastFetch'.batch)
              /\ ev'.increment # <<>> => Delivered' = ev'.increment]_vars

\* the first successful cycle after a reset has reported again, once, the
\* identifier the cycle before the reset had reported, from a batch that
\* holds it twice
C18_ReportedAgain ==
    /\ ev.op = "pollMessages"
    /\ ev.error = ""
    /\ ~ev.prev.has
    /\ Cardinality(Carrying(lastFetch.batch, "a")) = 2
    /\ Cardinality(Carrying(ev.increment, "a")) = 1
    /\ Delivered = ev.increment
    /\ timers # {}

(***************************************************************************)
(* C20: the identifiers of optimistic messages.                            *)
(***************************************************************************)
\* C20: every optimistic message carries the identifier temp-<clock value>
\* of the instant its send completed, and any two optimistic messages carry
\* different identifiers.
C20_TempIdsUnique ==
    /\ \A i \in DOMAIN sentLog : sentLog[i].id = TempId(sentLog[i].timestamp)
    /\ \A i, j \in DOMAIN sentLog : i # j => sentLog[i].id # sentLog[j].id

(***************************************************************************)
(* C21: the bounds of the polling interval.                                *)
(***************************************************************************)
\* C21: the period with which the recurring timer is armed is always a
\* whole number of seconds within 10..300.
C21_IntervalWithinBounds ==
    \A t \in timers : t.kind = "interval" => t.ms \in {n * 1000 : n \in 10..300}

(***************************************************************************)
(* C22: the order of a delivered batch.                                    *)
(***************************************************************************)
\* C22: every batch handed to the new-message subscriber is in ascending
\* order of timestamp.
C22_DeliveredAscending ==
    \A i \in DOMAIN Deliveries : IsSortedByTime(Deliveries[i].batch)

\* a cycle has delivered two messages of different instants that the
\* response array held in descending order
C22_DeliveredReordered ==
    /\ ev.op = "pollMessages"
    /\ Len(Delivered) = 2
    /\ Delivered[1].timestamp < Delivered[2].timestamp
    /\ Len(lastFetch.raw) = 2
    /\ lastFetch.raw[1].id.v = Delivered[2].id
    /\ lastFetch.raw[2].id.v = Delivered[1].id

(***************************************************************************)
(* C23: failures are not fatal to the running poller.                      *)
(***************************************************************************)
\* the recurring timer is armed and its handle kept
IntervalArmed ==
    /\ pollingInterval # NoTimer
    /\ \E t \in timers : t.kind = "interval" /\ t.id = pollingInterval

\* C23: while the poller runs, the recurring timer stays armed whatever
\* number of cycles fail, cycles keep being issued, and once the endpoint
\* answers successfully again a cycle eventually succeeds and replaces the
\* store with its batch.
C23_FailuresNotFatal ==
    /\ []IntervalArmed
    /\ []<>(ev.op = "interval")
    /\ (feed.fails = {}) ~> (CycleSucceeded /\ SeqToBag(allMessages) = SeqToBag(lastFetch.batch))

\* a cycle has succeeded and stored a message after the endpoint recovered,
\* with the retry timers of two failed cycles still pending next to the
\* recurring timer
C23_SucceededAfterFailures ==
    /\ CycleSucceeded
    /\ feed.fails = {}
    /\ allMessages # <<>>
    /\ Cardinality({t \in timers : t.kind = "timeout"}) = 2
    /\ IntervalArmed

(***************************************************************************)
(* C24: stopPolling on an idle poller.                                     *)
(***************************************************************************)
\* what a call of stopPolling that changes nothing leaves as it was
StopChangedNothing ==
    /\ ev'.error = ""
    /\ allMessages' = allMessages
    /\ processedMessageIds' = processedMessageIds
    /\ onNewMessageCallback' = onNewMessageCallback
    /\ onErrorCallback' = onErrorCallback
    /\ settings' = settings
    /\ timers' = timers
    /\ pollingInterval' = pollingInterval
    /\ retryTimeout' = retryTimeout
    /\ polls' = polls

\* C24: stopPolling called while no interval timer and no retry timer is
\* set changes nothing and raises no error, and a second stopPolling right
\* after a first changes nothing.
C24_StopWhenIdleIsNoOp ==
    [][ev'.op = "stopPolling" =>
          /\ (pollingInterval = NoTimer /\ retryTimeout = NoTimer) => StopChangedNothing
          /\ ev.op = "stopPolling" => StopChangedNothing]_vars

\* stopPolling has returned on a service that was never started: nothing
\* registered, nothing fetched, no timer
C24_StoppedNeverStarted ==
    /\ ev.op = "stopPolling"
    /\ ev.error = ""
    /\ onNewMessageCallback = NULL
    /\ timers = {}
    /\ pollingInterval = NoTimer
    /\ retryTimeout = NoTimer
    /\ allMessages = <<>>

(***************************************************************************)
(* C25..C28: overlapping cycles.                                           *)
(***************************************************************************)
\* C25: without a reset the seen set never loses an identifier, and a batch
\* handed to the new-message subscriber holds only identifiers that were not
\* in the seen set before (so in no batch handed over earlier), each once,
\* and all of them are in the seen set afterwards.
C25_NotifiedAtMostOnce ==
    [][ev'.op # "resetProcessedMessages" =>
          /\ processedMessageIds \subseteq processedMessageIds'
          /\ Len(Deliveries') <= 1
          /\ \A c \in Range(Deliveries') :
                 /\ \A k \in DOMAIN c.batch :
                        /\ c.batch[k].id # ""
                        /\ c.batch[k].id \notin processedMessageIds
                        /\ c.batch[k].id \in processedMessageIds'
                 /\ \A k, l \in DOMAIN c.batch : k # l => c.batch[k].id # c.batch[l].id]_vars

\* a cycle that completed while another was in flight, after an earlier
\* cycle and a send, has delivered one message and stored with it a message
\* that an earlier batch had delivered
C25_SecondDelivery ==
    /\ ev.op = "pollMessages"
    /\ ev.prev.has
    /\ BagCardinality(polls) >= 1
    /\ sentLog # <<>>
    /\ Len(Delivered) = 1
    /\ Len(allMessages) = 2
    /\ Ids(allMessages) \subseteq processedMessageIds

\* C26: whenever the new-message subscriber is called, the store it finds
\* is the whole new snapshot, and the seen set it finds holds the
\* identifiers of the batch it is handed and of every stored message that
\* has one; both are what the cycle leaves behind.
C26_SubscriberSeesMergedState ==
    Deliveries # <<>> =>
        /\ ev.view # <<>>
        /\ ev.view.allMessages = SortByTime(lastFetch.batch)
        /\ ev.view.allMessages = allMessages
        /\ ev.view.processedMessageIds = processedMessageIds
        /\ Ids(Delivered) \subseteq ev.view.processedMessageIds
        /\ Ids(ev.view.allMessages) \ {""} \subseteq ev.view.processedMessageIds

\* the subscriber has been called with both messages of a batch that
\* replaced a store holding an optimistic message
C26_CalledWithTwo ==
    /\ ev.op = "pollMessages"
    /\ Len(Delivered) = 2
    /\ ev.view.allMessages = Delivered
    /\ ev.prev.has
    /\ sentLog # <<>>

\* both cycles that were in flight at once have completed successfully
BothSucceeded == polls = EmptyBag /\ CycleSucceeded /\ ev.prev.has

\* C27: when two cycles in flight at once both succeed, the store is the
\* batch, sorted, of the response that was handled last, and nothing of the
\* batch handled first stays unless the last batch holds it too.
C27_LastCompletionWins ==
    BothSucceeded =>
        /\ lastFetch.batch = ConvertAll(fetchMessagesFromApi(ev.response).data, now)
        /\ allMessages = SortByTime(lastFetch.batch)
        /\ \A m \in Range(ev.prev.batch) :
               m \in Range(allMessages) <=> m \in Range(lastFetch.batch)

\* the two overlapping cycles fetched different non-empty batches, and the
\* store holds the later one
C27_LaterBatchStored ==
    /\ BothSucceeded
    /\ ev.prev.batch # <<>>
    /\ lastFetch.batch # <<>>
    /\ SeqToBag(ev.prev.batch) # SeqToBag(lastFetch.batch)
    /\ allMessages # SortByTime(ev.prev.batch)

\* the identifiers a batch brings that the seen set does not hold
Unseen(batch, seen) == Ids(batch) \ (seen \cup {""})

\* C28: stopPolling leaves the requests in flight as they are, and a
\* request that completes successfully has the same effect whether or not
\* the poller has been stopped: the store becomes the sorted batch of the
\* response, the seen set gains the identifiers of the batch, the subscriber
\* is called once with the messages whose identifiers are new, and the
\* timers stay as they were.
C28_StopLeavesInFlight ==
    [][/\ ev'.op = "stopPolling" => polls' = polls
       /\ (ev'.op = "pollMessages" /\ ev'.error = "") =>
            /\ BagCardinality(polls') = BagCardinality(polls) - 1
            /\ allMessages' =
                   SortByTime(ConvertAll(fetchMessagesFromApi(ev'.response).data, now))
            /\ processedMessageIds' =
                   processedMessageIds \cup (Ids(allMessages') \ {""})
            /\ Ids(Delivered') = Unseen(allMessages', processedMessageIds)
            /\ Len(Deliveries') = IF Unseen(allMessages', processedMessageIds) = {}
                                  THEN 0 ELSE 1
            /\ Deliveries' # <<>> => Deliveries'[1].to = onNewMessageCallback
            /\ <<timers', pollingInterval', retryTimeout'>> =
                   <<timers, pollingInterval, retryTimeout>>]_vars

\* the first cycle, in flight since the list was mounted, has completed
\* after the poller was stopped and no timer is pending: its two messages
\* are stored, seen and delivered
C28_CompletedAfterStop ==
    /\ CycleSucceeded
    /\ ~ev.prev.has
    /\ pollingInterval = NoTimer
    /\ timers = {}
    /\ Len(allMessages) = 2
    /\ Delivered = allMessages
    /\ Ids(allMessages) \subseteq processedMessageIds

(***************************************************************************)
(* C29, C30: the conversation list.                                        *)
(***************************************************************************)
\* the places of the stored messages a conversation of the list can have
\* been taken from: those of its group with its timestamp and its body
Representatives(c) ==
    {i \in Group(c.phone) :
        allMessages[i].timestamp = c.timestamp /\ allMessages[i].body = c.lastMessage}

\* C29: a conversation of the list is unread exactly when its representative
\* is Incoming and no Outgoing message of its group carries a timestamp at
\* or after the representative's, also when an Incoming and an Outgoing
\* message of the group carry the same timestamp.
C29_UnreadUnlessAnswered ==
    ev.op = "fetchConversations" =>
        \A k \in DOMAIN ev.result :
            LET c == ev.result[k] IN
            c.unread =
                (/\ \E i \in Representatives(c) : allMessages[i].direction = "Incoming"
                 /\ \A j \in Group(c.phone) :
                        allMessages[j].direction = "Outgoing" =>
                            allMessages[j].timestamp < c.timestamp)

\* C30: the list fetchConversations returns has exactly one entry for each
\* conversationId of the store and no other; the entry's timestamp is the
\* maximum of its group and its lastMessage the body of a stored message
\* carrying that timestamp; every store holding the same messages in another
\* order gives entries with the same keys and timestamps; the list is
\* sorted newest first; and a store of one Incoming message gives one
\* unread entry with that message's key and body.
C30_OnePerConversation ==
    ev.op = "fetchConversations" =>
        /\ {ev.result[k].phone : k \in DOMAIN ev.result} =
               {allMessages[i].conversationId : i \in DOMAIN allMessages}
        /\ \A k, l \in DOMAIN ev.result :
               ev.result[k].phone = ev.result[l].phone => k = l
        /\ \A k \in DOMAIN ev.result :
               Representatives(ev.result[k]) \cap Latest(ev.result[k].phone) # {}
        /\ \A other \in ReadStores :
               SeqToBag(other) = SeqToBag(allMessages) =>
                   {<<c.phone, c.timestamp>> : c \in Range(Conversations(other))} =
                       {<<c.phone, c.timestamp>> : c \in Range(ev.result)}
        /\ IsNewestFirst(ev.result)
        /\ (Len(allMessages) = 1 /\ allMessages[1].direction = "Incoming") =>
               /\ Len(ev.result) = 1
               /\ ev.result[1].phone = allMessages[1].conversationId
               /\ ev.result[1].lastMessage = allMessages[1].body
               /\ ev.result[1].unread

\* fetchConversations has listed two conversations, the newer of which has
\* an earlier message in the store that is not its representative
C30_ListedTwoGroups ==
    /\ ev.op = "fetchConversations"
    /\ Len(ev.result) = 2
    /\ ev.result[1].timestamp > ev.result[2].timestamp
    /\ Latest(ev.result[1].phone) # Group(ev.result[1].phone)

(***************************************************************************)
(* C31: messages without an identifier.                                    *)
(***************************************************************************)
\* how often the sequence s holds x
Count(s, x) == Cardinality({i \in DOMAIN s : s[i] = x})

\* C31: a successful cycle stores the messages of its batch that have an
\* empty id, each as often as the batch holds it, and puts none of them in
\* the increment or in the batch it hands to the subscriber; the empty
\* string is never in the seen set, and a batch of such messages alone,
\* fetched with an empty seen set, leaves the seen set empty.
C31_AnonymousStoredNeverNew ==
    /\ "" \notin processedMessageIds
    /\ CycleSucceeded =>
           /\ \A m \in Range(lastFetch.batch) :
                  m.id = "" => Count(allMessages, m) = Count(lastFetch.batch, m)
           /\ "" \notin Ids(ev.increment)
           /\ "" \notin Ids(Delivered)
           /\ (lastFetch.seenEmpty /\ Ids(lastFetch.batch) \subseteq {""}) =>
                  processedMessageIds = {}

\* a cycle fetched a message without an identifier for the second time,
\* stored it and handed the subscriber only the message fetched with it
C31_AnonymousFetchedAgain ==
    /\ CycleSucceeded
    /\ ev.prev.has
    /\ "" \in Ids(ev.prev.batch)
    /\ "" \in Ids(allMessages)
    /\ Len(allMessages) = 2
    /\ Len(Delivered) = 1

(***************************************************************************)
(* C32: a send that fails.                                                 *)
(***************************************************************************)
\* C32: a call of sendMessage issues a request only when the send endpoint
\* is not blank, and with a blank endpoint returns the configuration error
\* at once; a sendMessage that returns an error (blank endpoint, timeout,
\* network failure, non-2xx answer) leaves the store, the seen set, the
\* timers, their handles and the fetch requests as they were and calls no
\* subscriber; one that returns without an error has appended one message.
C32_FailedSendChangesNothing ==
    [][/\ ev'.op = "sendMessage.call" =>
            ~IsBlank(settings.n8nWebhookUrl) /\ BagCardinality(sends') = BagCardinality(sends) + 1
       /\ (ev'.op = "sendMessage" /\ IsBlank(settings.n8nWebhookUrl) /\ sends' = sends) =>
            ev'.error = ErrSendConfig
       /\ (ev'.op = "sendMessage" /\ ev'.error # "") =>
            /\ allMessages' = allMessages
            /\ processedMessageIds' = processedMessageIds
            /\ sentLog' = sentLog
            /\ <<timers', pollingInterval', retryTimeout'>> =
                   <<timers, pollingInterval, retryTimeout>>
            /\ polls' = polls
            /\ ev'.calls = <<>>
       /\ (ev'.op = "sendMessage" /\ ev'.error = "") =>
            /\ Len(allMessages') = Len(allMessages) + 1
            /\ ev'.calls = <<>>]_vars

\* a send into a store that holds an optimistic message has returned the
\* configuration error, the send endpoint being blank
C32_RefusedWhenBlank ==
    /\ ev.op = "sendMessage"
    /\ ev.error = ErrSendConfig
    /\ IsBlank(settings.n8nWebhookUrl)
    /\ allMessages = sentLog
    /\ Len(sentLog) = 1
    /\ timers = {}

(***************************************************************************)
(* C33: the backoff task.                                                  *)
(***************************************************************************)
\* the one-shot retry timers that are pending
PendingRetries == {t \in timers : t.kind = "timeout"}

\* C33: at any time at most one retry timer is pending, however many cycles
\* have failed.
C33_AtMostOneRetryPending == Cardinality(PendingRetries) <= 1

(***************************************************************************)
(* C34: a failed cycle and the store.                                      *)
(***************************************************************************)
\* C34: a cycle that ends in the error branch leaves allMessages and
\* processedMessageIds as they were (fetchConversations and fetchMessages
\* read allMessages alone, so they return after it what they returned
\* before it), and it leaves the record of the last successful fetch.
C34_FailedCycleKeepsStore ==
    [][(ev'.op = "pollMessages" /\ ev'.error # "") =>
           /\ allMessages' = allMessages
           /\ processedMessageIds' = processedMessageIds
           /\ lastFetch' = lastFetch]_vars

\* a cycle has failed after a successful fetch and a send: the store still
\* holds the fetched message followed by the optimistic one
C34_FailedAfterFetchAndSend ==
    /\ ev.op = "pollMessages"
    /\ ev.error # ""
    /\ lastFetch.has
    /\ lastFetch.batch # <<>>
    /\ sentLog # <<>>
    /\ allMessages = SortByTime(lastFetch.batch) \o sentLog
    /\ Ids(allMessages) \subseteq processedMessageIds

(***************************************************************************)
(* C35: after stopPolling.                                                 *)
(***************************************************************************)
\* C35: once stopPolling has returned and nobody has started the poller or
\* called pollMessages since, no timer of the poller fires and no fetch
\* request is issued, also after the requests that were in flight at the
\* stop have completed.
C35_NoFetchAfterStop ==
    [][pollingInterval = NoTimer =>
           /\ ev'.op \notin {"interval", "retry"}
           /\ BagCardinality(polls') <= BagCardinality(polls)]_vars

(***************************************************************************)
(* C36: the recurring timer.                                               *)
(***************************************************************************)
\* the recurring timers that are armed
IntervalTimers == {t \in timers : t.kind = "interval"}

\* C36: after every step at most one recurring timer is armed, and it is
\* the one whose handle the service holds; a start, from Idle or while
\* Running, leaves exactly the timer it arms and issues one fetch;
\* updateSettings while a timer is armed does the same with the period of
\* the new settings, and while none is armed it arms no timer and issues no
\* fetch.
C36_OneIntervalTimer ==
    [][/\ Cardinality(IntervalTimers') <= 1
       /\ IntervalTimers' = {t \in timers' : t.id = pollingInterval' /\ t.kind = "interval"}
       /\ pollingInterval' # NoTimer => IntervalTimers' # {}
       /\ ev'.op \in {"mountConversationList", "startPolling"} =>
              /\ IntervalTimers' =
                     {Timer(pollingInterval', "interval", settings.pollingInterval * 1000)}
              /\ BagCardinality(polls') = BagCardinality(polls) + 1
       /\ (ev'.op = "updateSettings" /\ pollingInterval # NoTimer) =>
              /\ IntervalTimers' =
                     {Timer(pollingInterval', "interval", settings'.pollingInterval * 1000)}
              /\ BagCardinality(polls') = BagCardinality(polls) + 1
       /\ (ev'.op = "updateSettings" /\ pollingInterval = NoTimer) =>
              /\ timers' = timers
              /\ pollingInterval' = NoTimer
              /\ polls' = polls]_vars

\* the settings were saved with a period of 10 s while the poller was
\* running and its first cycle in flight: one timer of 10 s is armed and a
\* second fetch has been issued
C36_RestartedBySave ==
    /\ ev.op = "updateSettings"
    /\ settings.pollingInterval = 10
    /\ pollingInterval # NoTimer
    /\ timers = {Timer(pollingInterval, "interval", 10000)}
    /\ BagCardinality(polls) = 2

(***************************************************************************)
(* C37: new messages found while nobody is subscribed.                     *)
(***************************************************************************)
\* C37: a successful cycle that completes while no new-message subscriber
\* is registered calls nobody and still puts the identifiers it found new
\* into the seen set; without a reset the seen set keeps them; and no batch
\* handed to a subscriber holds an identifier that was in the seen set.
C37_DroppedStaysDropped ==
    [][/\ (ev'.op = "pollMessages" /\ ev'.error = "" /\ onNewMessageCallback = NULL) =>
              /\ Deliveries' = <<>>
              /\ Ids(ev'.increment) = Unseen(allMessages', processedMessageIds)
              /\ Unseen(allMessages', processedMessageIds) \subseteq processedMessageIds'
       /\ ev'.op # "resetProcessedMessages" =>
              processedMessageIds \subseteq processedMessageIds'
       /\ Ids(Delivered') \cap processedMessageIds = {}]_vars

\* a cycle has found two new messages while nobody was subscribed: nobody
\* was called, and both identifiers are in the seen set
C37_FoundWhileUnheard ==
    /\ CycleSucceeded
    /\ onNewMessageCallback = NULL
    /\ Len(ev.increment) = 2
    /\ ev.calls = <<>>
    /\ Ids(ev.increment) \subseteq processedMessageIds

(***************************************************************************)
(* C38: the conversation list and the chat view.                           *)
(***************************************************************************)
\* C38: while the conversation list is mounted (its mount effect has
\* started the poller, which nothing has stopped), every batch of new
\* messages a cycle raises is handed to the handler of the list.
C38_ListHearsEveryBatch ==
    (ev.op = "pollMessages" /\ ev.increment # <<>> /\ pollingInterval # NoTimer) =>
        \E i \in DOMAIN Deliveries :
            /\ Deliveries[i].to = "ConversationList"
            /\ Deliveries[i].batch = ev.increment

(***************************************************************************)
(* C39: the same batch fetched twice.                                      *)
(***************************************************************************)
\* the last cycle received the raw batch that the successful cycle before
\* it had received
Refetched ==
    /\ CycleSucceeded
    /\ ev.prev.has
    /\ lastFetch.raw = ev.prev.raw

\* the timestamp string of a raw message can be parsed
Parseable(raw) == DateParse(raw.lastMessageHK.v) # NaN

\* C39 (as stated): two successful cycles that receive the same raw batch
\* leave the same store, with the same timestamps and so the same
\* conversation list, whatever time passes between them.
C39_RefetchLeavesSameStore ==
    Refetched =>
        /\ allMessages = SortByTime(ev.prev.batch)
        /\ Conversations(allMessages) = Conversations(SortByTime(ev.prev.batch))

\* C39 (amended): two successful cycles that receive the same raw batch
\* store the same messages up to the timestamps of the elements whose
\* timestamp string cannot be parsed, which carry the time of the cycle that
\* stored them; when every timestamp string of the batch can be parsed the
\* two stores, and the conversation lists, are equal.
C39_RefetchSameUpToFallback ==
    Refetched =>
        /\ allMessages = SortByTime(lastFetch.batch)
        /\ Len(lastFetch.batch) = Len(ev.prev.batch)
        /\ \A i \in DOMAIN lastFetch.raw :
               /\ Parseable(lastFetch.raw[i]) => lastFetch.batch[i] = ev.prev.batch[i]
               /\ ~Parseable(lastFetch.raw[i]) =>
                      /\ lastFetch.batch[i] = [ev.prev.batch[i] EXCEPT !.timestamp = now]
                      /\ ev.prev.batch[i].timestamp <= now
        /\ (\A i \in DOMAIN lastFetch.raw : Parseable(lastFetch.raw[i])) =>
               /\ allMessages = SortByTime(ev.prev.batch)
               /\ Conversations(allMessages) = Conversations(SortByTime(ev.prev.batch))

\* a batch of a message and one whose timestamp cannot be parsed has been
\* fetched a second time, later: the first message is stored as before, the
\* other with a later timestamp
C39_RefetchedLater ==
    /\ Refetched
    /\ Len(lastFetch.raw) = 2
    /\ Parseable(lastFetch.raw[1])
    /\ ~Parseable(lastFetch.raw[2])
    /\ lastFetch.batch[1] = ev.prev.batch[1]
    /\ lastFetch.batch[2].timestamp > ev.prev.batch[2].timestamp

=============================================================================
